---------------------------- MODULE Spec2Model ----------------------------
(***************************************************************************)
(* Model of the batch annotation pipeline of anki-flashcards:              *)
(*   attached_assets/process_llm_1754667261671.py  (the full pipeline)     *)
(*   server/ai-processor.py                        (the server variant)    *)
(*                                                                         *)
(* Texts are sequences of one-character strings.  Token indices are        *)
(* 0-based as in the Python source; Tok(toks, i) reads all_tokens[i].      *)
(***************************************************************************)
EXTENDS Integers, Sequences, FiniteSets, TLC

VARIABLES
    text,                 \* the input text (text_to_use)
    all_tokens,           \* global all_tokens
    global_word_counter,  \* global global_word_counter
    target_word_count,    \* argument of find_split_points (args.batch_size)
    backward_range,       \* argument of find_split_points
    forward_range,        \* argument of find_split_points
    split_points,         \* result of find_split_points
    boundaries,           \* result of calculate_batch_boundaries
    spc,                  \* position of the tokenize/split/boundaries pipeline
    doc,                  \* the document file (args.output = args.resume_from)
    mode,                 \* run_mode, as the command line selects it
    mpc,                  \* position of main_processing_logic
    concurrency,          \* args.concurrency
    args,                 \* args.up_to_batch, args.process_batches
    global_database,      \* global global_database
    global_segment_database, \* global global_segment_database
    global_idiom_database,   \* global global_idiom_database
    global_known_words,   \* global global_known_words
    reprocess_range,      \* <<start_word, end_word>> of the reprocess task
    tpc,                  \* per task: position in process_batch_parallel / reprocess_word_range
    validation_attempt,   \* per task: validation_attempt of the retry loop
    attempt,              \* per task: attempt of call_llm_api_async
    validated_data,       \* per task: validated_data
    tstatus,              \* per task: the status the task returned
    tlocal,               \* per task: combined_json_str, llm_response_text, the sleep in progress, what was returned
    sem,                  \* free permits of api_semaphore
    lock_holders,         \* tasks inside `async with lock`
    faults,               \* failed service calls so far (bounded by MaxFaults)
    processed_at_start,   \* history: batches is_batch_processed reported at dispatch
    called,               \* history: tasks that sent a request to the service
    saved,                \* history: has the current run written the document?
    op                    \* history: the last operation applied to the document's data

splitVars == <<text, all_tokens, global_word_counter, target_word_count,
               backward_range, forward_range, split_points, boundaries, spc>>

dataVars == <<global_database, global_segment_database, global_idiom_database,
              global_known_words>>

taskVars == <<tpc, validation_attempt, attempt, validated_data, tstatus, tlocal,
              sem, lock_holders, faults, called>>

runVars == <<doc, mode, mpc, concurrency, args, reprocess_range, processed_at_start, saved, op>>

vars == <<splitVars, dataVars, taskVars, runVars>>

-----------------------------------------------------------------------------
(* Bounds of the model *)

MaxLen == 5
MaxTarget == 3
MaxRange == 1

-----------------------------------------------------------------------------
(* Small helpers *)

Max2(a, b) == IF a >= b THEN a ELSE b
Min2(a, b) == IF a <= b THEN a ELSE b

RECURSIVE SeqsUpTo(_, _)
SeqsUpTo(S, n) ==
    IF n = 0 THEN {<<>>}
    ELSE LET shorter == SeqsUpTo(S, n - 1)
         IN  shorter \cup {Append(s, c) : s \in {x \in shorter : Len(x) = n - 1}, c \in S}

RECURSIVE Concat(_)
Concat(ss) == IF ss = <<>> THEN <<>> ELSE Head(ss) \o Concat(Tail(ss))

-----------------------------------------------------------------------------
(* Tokenizer: TOKEN_REGEX and tokenize_text_only *)

\* \p{L}: the letters of the model's alphabets
Letters == {"a", "b", "A", "B",
            "H", "h", "e", "l", "o", "w", "r", "d", "g", "i", "n"}
\* the apostrophe variants of TOKEN_REGEX
Apostrophes == {"'"}
\* what \s matches: blanks, tabs and newlines alike
WhitespaceChars == {" ", "\t", "\n"}
\* what \n matches
NewlineChars == {"\n"}

\* group 1: [\p{L}'’]
WordClass(c) == c \in Letters \cup Apostrophes
\* group 2: \s
SpaceClass(c) == c \in WhitespaceChars
\* group 3: \n
NewlineClass(c) == c \in NewlineChars
\* group 4: [^\p{L}\s\n'’], mutated: the full stop is left out of the class
NonWordClassNoStop(c) ==
    /\ c \notin Letters
    /\ c \notin WhitespaceChars
    /\ c \notin NewlineChars
    /\ c \notin Apostrophes
    /\ c # "."
\* group 4: [^\p{L}\s\n'’]
NonWordClass(c) ==
    /\ c \notin Letters
    /\ c \notin WhitespaceChars
    /\ c \notin NewlineChars
    /\ c \notin Apostrophes

\* Does alternative g of TOKEN_REGEX accept character c?
InGroup(g, c) ==
    CASE g = 1 -> WordClass(c)
      [] g = 2 -> SpaceClass(c)
      [] g = 3 -> NewlineClass(c)
      [] g = 4 -> NonWordClass(c)

\* The alternative that matches at a character: the leftmost one that
\* accepts it (0: no alternative matches, finditer moves on).
GroupAt(c) ==
    IF InGroup(1, c) THEN 1
    ELSE IF InGroup(2, c) THEN 2
    ELSE IF InGroup(3, c) THEN 3
    ELSE IF InGroup(4, c) THEN 4
    ELSE 0

\* X+ without the greedy repetition: a match is one character long
RunEndLazy(t, g, i) == i

\* End (inclusive, 1-based) of the greedy run X+ of group g starting at i.
RECURSIVE RunEnd(_, _, _)
RunEnd(t, g, i) ==
    IF i + 1 <= Len(t) /\ InGroup(g, t[i + 1]) THEN RunEnd(t, g, i + 1) ELSE i

\* str.lower() on one character
LowerChar(c) ==
    CASE c = "A" -> "a" [] c = "B" -> "b" [] c = "H" -> "h" [] OTHER -> c
Lower(w) == [k \in 1..Len(w) |-> LowerChar(w[k])]

NoWordPos == 0

TokenType(g) ==
    CASE g = 1 -> "word"
      [] g = 2 -> "whitespace"
      [] g = 3 -> "newline"
      [] g = 4 -> "punctuation"

\* The loop of tokenize_text_only over regex.finditer(TOKEN_REGEX, text):
\* i is the 1-based scan position, wc is current_word_index.
RECURSIVE TokenizeFrom(_, _, _, _)
TokenizeFrom(t, i, wc, acc) ==
    IF i > Len(t) THEN [tokens |-> acc, words |-> wc]
    ELSE LET g == GroupAt(t[i])
         IN  IF g = 0 THEN TokenizeFrom(t, i + 1, wc, acc)
             ELSE LET j   == RunEnd(t, g, i)
                      txt == SubSeq(t, i, j)
                      tok == IF g = 1
                             THEN [text |-> txt, type |-> "word",
                                   wordPos |-> wc + 1, lowerWord |-> Lower(txt)]
                             ELSE [text |-> txt, type |-> TokenType(g),
                                   wordPos |-> NoWordPos, lowerWord |-> <<>>]
                  IN  TokenizeFrom(t, j + 1, IF g = 1 THEN wc + 1 ELSE wc,
                                   Append(acc, tok))

tokenize_text_only(t) == TokenizeFrom(t, 1, 0, <<>>)

-----------------------------------------------------------------------------
(* find_split_points *)

Tok(toks, i) == toks[i + 1]

\* sum(1 for t in all_tokens[:k] if t['type'] == 'word')
WordsBefore(toks, k) ==
    Cardinality({i \in 0..(Min2(k, Len(toks)) - 1) : Tok(toks, i).type = "word"})

\* Lines 257-266: the scan that maps the word-position window onto token
\* indices; -1 stands for "not set".
RECURSIVE ScanWindow(_, _, _, _, _, _, _, _)
ScanWindow(toks, i, min_pos, target_pos, max_pos, mn, tg, mx) ==
    IF i >= Len(toks) THEN <<mn, tg, mx>>
    ELSE LET token == Tok(toks, i)
         IN  IF token.type # "word"
             THEN ScanWindow(toks, i + 1, min_pos, target_pos, max_pos, mn, tg, mx)
             ELSE LET wp  == token.wordPos
                      mn2 == IF mn = -1 /\ wp >= min_pos THEN i ELSE mn
                      tg2 == IF tg = -1 /\ wp >= target_pos THEN i ELSE tg
                  IN  IF wp <= max_pos
                      THEN ScanWindow(toks, i + 1, min_pos, target_pos, max_pos,
                                      mn2, tg2, i)
                      ELSE <<mn2, tg2,
                             IF mx = -1 THEN (IF i > 0 THEN i - 1 ELSE 0) ELSE mx>>

\* Line 280-281: the score of a candidate token, doubled so that 2.5 stays
\* an integer (1 -> 2, 2 -> 4, 2.5 -> 5, 3 -> 6); -1: not a candidate.
Score(token) ==
    IF token.type = "punctuation"
    THEN IF token.text = <<",">> THEN 2
         ELSE IF token.text \in {<<";">>, <<":">>} THEN 4 ELSE 6
    ELSE IF token.type = "newline" THEN 5
    ELSE -1

\* Line 282: does a candidate replace the best one so far?
Better(score, prio, best_score) ==
    score # -1 /\ (best_score = -1 \/ score < best_score \/ (score = best_score /\ prio))

\* Lines 276-283 for one candidate (idx, prio); best is <<best_split_idx, best_score>>.
Consider(toks, last_split_idx, idx, prio, best) ==
    IF idx > last_split_idx /\ Better(Score(Tok(toks, idx)), prio, best[2])
    THEN <<idx, Score(Tok(toks, idx))>>
    ELSE best

\* Lines 272-283: offsets 0..search_radius, forward candidate first.
RECURSIVE SearchOffsets(_, _, _, _, _, _, _, _)
SearchOffsets(toks, last_split_idx, mn, tg, mx, offset, radius, best) ==
    IF offset > radius THEN best
    ELSE LET b1 == IF tg + offset <= mx
                   THEN Consider(toks, last_split_idx, tg + offset, TRUE, best)
                   ELSE best
             b2 == IF offset > 0 /\ tg - offset >= mn
                   THEN Consider(toks, last_split_idx, tg - offset, FALSE, b1)
                   ELSE b1
         IN  SearchOffsets(toks, last_split_idx, mn, tg, mx, offset + 1, radius, b2)

\* Lines 286-287 and 292: advance over the non-word tokens that follow,
\* not beyond limit.
RECURSIVE SkipNonWords(_, _, _)
SkipNonWords(toks, idx, limit) ==
    IF idx + 1 < Len(toks) /\ idx + 1 <= limit /\ Tok(toks, idx + 1).type # "word"
    THEN SkipNonWords(toks, idx + 1, limit)
    ELSE idx

\* Line 289: index of the first word token after last_split_idx, or -1.
NextWordIdx(toks, last_split_idx) ==
    LET ws == {i \in (last_split_idx + 1)..(Len(toks) - 1) : Tok(toks, i).type = "word"}
    IN  IF ws = {} THEN -1 ELSE CHOOSE i \in ws : \A k \in ws : i <= k

\* Lines 288-293: forced progress when the search did not advance.
ForcedSplit(toks, last_split_idx) ==
    LET next_word_idx == NextWordIdx(toks, last_split_idx)
    IN  IF next_word_idx # -1
        THEN SkipNonWords(toks, Max2(next_word_idx - 1, last_split_idx + 1),
                          Len(toks))
        ELSE Len(toks) - 1

\* Lines 250-297 with min_pos = current_word_count + 1, whatever backward_range
ChooseSplitNoBackwardLimit(toks, total_words, current_word_count, last_split_idx, twc, br, fr) ==
    LET target_pos == current_word_count + twc
        min_pos    == current_word_count + 1
        max_pos    == Min2(total_words, target_pos + fr)
        w          == ScanWindow(toks, last_split_idx + 1, min_pos, target_pos,
                                 max_pos, -1, -1, -1)
        mn         == IF w[1] = -1 THEN last_split_idx + 1 ELSE w[1]
        mx         == IF w[3] = -1 THEN Len(toks) - 1 ELSE w[3]
        tg         == IF w[2] = -1 THEN mx ELSE w[2]
        radius     == Max2(tg - mn, mx - tg)
        found      == SearchOffsets(toks, last_split_idx, mn, tg, mx, 0, radius,
                                    <<-1, -1>>)
        natural    == IF found[1] = -1 THEN SkipNonWords(toks, tg, mx) ELSE found[1]
    IN  IF natural <= last_split_idx THEN ForcedSplit(toks, last_split_idx)
        ELSE natural

\* Lines 250-297 after the two early exits: the split index chosen in one
\* iteration of the loop.
ChooseSplit(toks, total_words, current_word_count, last_split_idx, twc, br, fr) ==
    LET target_pos == current_word_count + twc
        min_pos    == Max2(current_word_count + 1, target_pos - br)
        max_pos    == Min2(total_words, target_pos + fr)
        w          == ScanWindow(toks, last_split_idx + 1, min_pos, target_pos,
                                 max_pos, -1, -1, -1)
        mn         == IF w[1] = -1 THEN last_split_idx + 1 ELSE w[1]
        mx         == IF w[3] = -1 THEN Len(toks) - 1 ELSE w[3]
        tg         == IF w[2] = -1 THEN mx ELSE w[2]
        radius     == Max2(tg - mn, mx - tg)
        found      == SearchOffsets(toks, last_split_idx, mn, tg, mx, 0, radius,
                                    <<-1, -1>>)
        natural    == IF found[1] = -1 THEN SkipNonWords(toks, tg, mx) ELSE found[1]
    IN  IF natural <= last_split_idx THEN ForcedSplit(toks, last_split_idx)
        ELSE natural

\* Lines 244-302: the while loop.  st carries split_points, current_word_count,
\* last_split_idx, loop_guard and iterations (the number of loop tests that
\* entered the body).
RECURSIVE SplitLoop(_, _, _, _, _, _)
SplitLoop(toks, total_words, twc, br, fr, st) ==
    IF ~(st.current_word_count < total_words) THEN st
    ELSE
      LET guard == st.loop_guard + 1
          n     == Len(toks)
          flush == IF st.last_split_idx < n - 1
                   THEN Append(st.split_points, n - 1) ELSE st.split_points
      IN  IF guard > n * 2
          THEN [st EXCEPT !.split_points = flush, !.loop_guard = guard]
          ELSE IF st.current_word_count + twc >= total_words
          THEN [st EXCEPT !.split_points = Append(st.split_points, n - 1),
                          !.loop_guard = guard]
          ELSE LET best == ChooseSplit(toks, total_words, st.current_word_count,
                                       st.last_split_idx, twc, br, fr)
               IN  IF best <= st.last_split_idx
                   THEN [st EXCEPT !.split_points = flush, !.loop_guard = guard]
                   ELSE SplitLoop(toks, total_words, twc, br, fr,
                          [split_points       |-> Append(st.split_points, best),
                           current_word_count |-> WordsBefore(toks, best + 1),
                           last_split_idx     |-> best,
                           loop_guard         |-> guard])

\* The loop followed by a flush of the remainder that does not test
\* last_split_idx < len(all_tokens) - 1
find_split_points_flush_always(toks, total_words, twc, br, fr) ==
    IF total_words = 0 THEN <<>>
    ELSE Append(SplitLoop(toks, total_words, twc, br, fr,
                          [split_points |-> <<>>, current_word_count |-> 0,
                           last_split_idx |-> -1, loop_guard |-> 0]).split_points,
                Len(toks) - 1)

find_split_points(toks, total_words, twc, br, fr) ==
    IF total_words = 0 THEN <<>>
    ELSE SplitLoop(toks, total_words, twc, br, fr,
                   [split_points |-> <<>>, current_word_count |-> 0,
                    last_split_idx |-> -1, loop_guard |-> 0]).split_points

-----------------------------------------------------------------------------
(* calculate_batch_boundaries *)

\* f"seg-{start_key}-{end_key}"
SegmentId(start_key, end_key) == <<"seg", start_key, end_key>>

\* Lines 313-335 for one batch: the token range [start_token_index, end_token_index].
BatchInfo(toks, start_token_index, end_token_index) ==
    LET idxs      == {i \in start_token_index..end_token_index :
                         i < Len(toks) /\ Tok(toks, i).type = "word"
                                       /\ Tok(toks, i).wordPos # NoWordPos}
        word_keys == {Tok(toks, i).wordPos : i \in idxs}
        first     == CHOOSE i \in idxs : \A k \in idxs : i <= k
        last      == CHOOSE i \in idxs : \A k \in idxs : i >= k
        prev_wp   == IF start_token_index > 0 /\ start_token_index - 1 < Len(toks)
                        /\ Tok(toks, start_token_index - 1).type = "word"
                        /\ Tok(toks, start_token_index - 1).wordPos # NoWordPos
                     THEN Tok(toks, start_token_index - 1).wordPos
                     ELSE 0
        start_key == IF idxs # {} THEN Tok(toks, first).wordPos ELSE prev_wp + 1
        end_key   == IF idxs # {} THEN Tok(toks, last).wordPos ELSE start_key - 1
    IN  [startTokenIndex   |-> start_token_index,
         endTokenIndex     |-> end_token_index,
         wordKeys          |-> word_keys,
         segmentId         |-> SegmentId(start_key, end_key),
         batchStartWordKey |-> start_key,
         batchEndWordKey   |-> end_key]

\* Line 338, mutated: the next batch starts on the previous end token.
NextStartOverlap(end_token_index) == end_token_index

\* Line 338: start_token_index = end_token_index + 1
NextStart(end_token_index) == end_token_index + 1

\* Lines 311-339: batch k (1-based) covers the tokens after split point k-1
\* up to and including split point k.
calculate_batch_boundaries(toks, sp) ==
    [k \in 1..Len(sp) |->
        BatchInfo(toks, IF k = 1 THEN 0 ELSE NextStart(sp[k - 1]), sp[k])]

-----------------------------------------------------------------------------
(* The word database: entries, the skip checks, integration, clearing      *)
(*                                                                         *)
(* A Python dict is a function; a missing key is a key outside its DOMAIN. *)
(* A number or a bool held in a field that can also hold the string "TBD"  *)
(* is written as its JSON text: Num(n), Bool(b).  A value that is not a    *)
(* dict where the code tests isinstance(v, dict) is written NotADict.      *)

\* str(k) and int(k) for the numbers of the model
Digits == <<"0", "1", "2", "3", "4", "5", "6", "7", "8", "9">>
StrOfInt(n) == IF n < 10 THEN Digits[n + 1] ELSE Digits[(n \div 10) + 1] \o Digits[(n % 10) + 1]
DecimalStrings == {StrOfInt(n) : n \in 0..99}
IsDigit(k) == k \in DecimalStrings
IntOfStr(k) == CHOOSE n \in 0..99 : StrOfInt(n) = k

Num(n) == StrOfInt(n)
Bool(b) == IF b THEN "true" ELSE "false"
PyNone == <<"None">>
NotADict == [notADict |-> TRUE]
IsDict(v) == "notADict" \notin DOMAIN v

\* d.get(k): None when the key is missing
Get(d, k) == IF k \in DOMAIN d THEN d[k] ELSE PyNone
\* d.get(k, default)
GetOr(d, k, default) == IF k \in DOMAIN d THEN d[k] ELSE default

\* old.update(new): the keys of new overwrite, the others stay
DictUpdate(old, new) ==
    [k \in (DOMAIN old) \cup (DOMAIN new) |-> IF k \in DOMAIN new THEN new[k] ELSE old[k]]

\* d[k] = v
DictSet(d, k, v) == [x \in (DOMAIN d) \cup {k} |-> IF x = k THEN v ELSE d[x]]

\* The placeholder entry with empty strings in place of "TBD"
PlaceholderEntryBlank(token_text) ==
    [word |-> token_text, pos |-> "", lemma |-> "", best_translation |-> "",
     possible_translations |-> <<>>, details |-> <<>>, freq |-> "TBD",
     freq_till_now |-> "TBD", first_inst |-> "TBD", lemma_translations |-> <<>>,
     most_frequent_lemma |-> "TBD"]

\* Lines 203-210: the placeholder entry of a new word
PlaceholderEntry(token_text) ==
    [word |-> token_text, pos |-> "TBD", lemma |-> "TBD", best_translation |-> "TBD",
     possible_translations |-> <<>>, details |-> <<>>, freq |-> "TBD",
     freq_till_now |-> "TBD", first_inst |-> "TBD", lemma_translations |-> <<>>,
     most_frequent_lemma |-> "TBD"]

\* The word tokens of a token list, by word position
WordTextAt(toks, p) ==
    LET i == CHOOSE i \in 1..Len(toks) : toks[i].type = "word" /\ toks[i].wordPos = p
    IN  toks[i].text

\* Lines 175-224: the entries tokenize_and_ensure_word_entries leaves in
\* global_database: old is the database before the call.
EnsureWordEntries(toks, words, old) ==
    LET new_word_database ==
            [p \in 1..words |->
                IF p \in DOMAIN old
                THEN DictSet(old[p], "word", WordTextAt(toks, p))
                ELSE PlaceholderEntry(WordTextAt(toks, p))]
    IN  [p \in (DOMAIN old) \cup (1..words) |->
            IF p \in 1..words THEN new_word_database[p] ELSE old[p]]

\* Lines 180-221: the loop of tokenize_and_ensure_word_entries over
\* regex.finditer(TOKEN_REGEX, text); new_db is new_word_database, old is
\* global_database as the call finds it.
RECURSIVE TokenizeEnsureFrom(_, _, _, _, _, _)
TokenizeEnsureFrom(t, i, wc, acc, new_db, old) ==
    IF i > Len(t) THEN [tokens |-> acc, words |-> wc, new_word_database |-> new_db]
    ELSE LET g == GroupAt(t[i])
         IN  IF g = 0 THEN TokenizeEnsureFrom(t, i + 1, wc, acc, new_db, old)
             ELSE LET j   == RunEnd(t, g, i)
                      txt == SubSeq(t, i, j)
                  IN  IF g = 1
                      THEN TokenizeEnsureFrom(t, j + 1, wc + 1,
                               Append(acc, [text |-> txt, type |-> "word",
                                            wordPos |-> wc + 1, lowerWord |-> Lower(txt)]),
                               DictSet(new_db, wc + 1,
                                       IF wc + 1 \in DOMAIN old
                                       THEN DictSet(old[wc + 1], "word", txt)
                                       ELSE PlaceholderEntry(txt)),
                               old)
                      ELSE TokenizeEnsureFrom(t, j + 1, wc,
                               Append(acc, [text |-> txt, type |-> TokenType(g),
                                            wordPos |-> NoWordPos, lowerWord |-> <<>>]),
                               new_db, old)

\* Lines 169-225: the tokens, the count and the database the call leaves
\* (line 224: global_database.update(new_word_database))
tokenize_and_ensure_word_entries(t, old) ==
    LET r == TokenizeEnsureFrom(t, 1, 0, <<>>, <<>>, old)
    IN  [tokens |-> r.tokens, words |-> r.words,
         db |-> DictUpdate(old, r.new_word_database)]

\* Line 621: not word_entry or pos == "TBD" or best_translation == "TBD"
\* (an empty dict is falsy)
EntryUnprocessed(db, key) ==
    \/ key \notin DOMAIN db
    \/ DOMAIN db[key] = {}
    \/ Get(db[key], "pos") = "TBD"
    \/ Get(db[key], "best_translation") = "TBD"

\* Lines 609-623 of process_llm_1754667261671.py
is_batch_processed(db, batch_word_keys) ==
    IF batch_word_keys = {} THEN TRUE
    ELSE ~ \E key \in batch_word_keys : EntryUnprocessed(db, key)

\* Lines 328-341 of server/ai-processor.py
is_batch_already_processed(db, word_positions) ==
    ~ \E pos \in word_positions :
         \/ pos \notin DOMAIN db
         \/ Get(db[pos], "pos") = "TBD"
         \/ Get(db[pos], "lemma") = "TBD"
         \/ Get(db[pos], "best_translation") = "TBD"

\* Lines 569-571, mutated: the word echoed by the service is kept
MergeWordDataEcho(entry, word_data) == DictUpdate(entry, word_data)

\* Lines 566-571 (and 824-829): update the entry with the returned fields,
\* then put the word on file back.
MergeWordData(entry, word_data) ==
    LET with_mfl      == IF "most_frequent_lemma" \in DOMAIN entry THEN entry
                         ELSE DictSet(entry, "most_frequent_lemma", "TBD")
        original_word == GetOr(with_mfl, "word", GetOr(word_data, "word", <<>>))
    IN  DictSet(DictUpdate(with_mfl, word_data), "word", original_word)

\* Line 564 (and 821): is this returned item applied?
WordDataApplies(db, word_pos, word_data) ==
    /\ word_pos \in DOMAIN db
    /\ IsDict(word_data)
    /\ "word" \in DOMAIN word_data

\* The word part with the membership test of line 564 dropped: an item at a
\* position without an entry is inserted.
IntegrateWordsInsert(db, batch_word_data) ==
    LET added == {p \in DOMAIN batch_word_data :
                     /\ p \notin DOMAIN db
                     /\ IsDict(batch_word_data[p])
                     /\ "word" \in DOMAIN batch_word_data[p]}
    IN  [p \in DOMAIN db \cup added |->
            IF p \in added THEN batch_word_data[p]
            ELSE IF p \in DOMAIN batch_word_data
                    /\ WordDataApplies(db, p, batch_word_data[p])
                 THEN MergeWordData(db[p], batch_word_data[p])
                 ELSE db[p]]

\* Lines 557-573: the word part of integrate_llm_data_async
IntegrateWords(db, batch_word_data) ==
    [p \in DOMAIN db |->
        IF p \in DOMAIN batch_word_data /\ WordDataApplies(db, p, batch_word_data[p])
        THEN MergeWordData(db[p], batch_word_data[p])
        ELSE db[p]]

\* index of the first element of a list with the given id, or 0
FindById(list, id) ==
    LET hits == {i \in 1..Len(list) : Get(list[i], "id") = id}
    IN  IF hits = {} THEN 0 ELSE CHOOSE i \in hits : \A k \in hits : i <= k

SegmentKeys == {"id", "translations", "startWordKey", "endWordKey"}
IdiomKeys == {"id", "text", "startWordKey", "endWordKey"}

\* Lines 578-587 for one (seg_id, seg_entry)
IntegrateSegment(segs, seg_id, seg_entry) ==
    IF ~(IsDict(seg_entry) /\ SegmentKeys \subseteq DOMAIN seg_entry) THEN segs
    ELSE LET found_idx == FindById(segs, seg_id)
         IN  IF found_idx # 0
             THEN IF IsDict(seg_entry.translations)
                  THEN [segs EXCEPT ![found_idx] = DictUpdate(@, seg_entry)]
                  ELSE segs
             ELSE Append(segs, seg_entry)

\* Lines 576-587: segmentData is a dict; its items are taken in the order
\* given by order (a sequence of its keys).
RECURSIVE IntegrateSegments(_, _, _)
IntegrateSegments(segs, segment_data, order) ==
    IF order = <<>> THEN segs
    ELSE IntegrateSegments(IntegrateSegment(segs, Head(order), segment_data[Head(order)]),
                           segment_data, Tail(order))

\* Lines 593-601 for one idiom of the response
IntegrateIdiom(idioms, idiom) ==
    IF ~(IsDict(idiom) /\ IdiomKeys \subseteq DOMAIN idiom) THEN idioms
    ELSE LET found_idx == FindById(idioms, idiom.id)
         IN  IF found_idx # 0
             THEN [idioms EXCEPT ![found_idx] = DictUpdate(@, idiom)]
             ELSE Append(idioms, idiom)

\* Lines 590-601
RECURSIVE IntegrateIdioms(_, _)
IntegrateIdioms(idioms, batch_idioms) ==
    IF batch_idioms = <<>> THEN idioms
    ELSE IntegrateIdioms(IntegrateIdiom(idioms, Head(batch_idioms)), Tail(batch_idioms))

\* Line 559: int(k) for a key with k.isdigit() raises ValueError outside
\* the try of line 562 (a key such as a superscript digit); the response
\* field badDigitKey says the response holds such a key.
IntegrationRaises(llm_data) == llm_data.badDigitKey

\* Lines 554-601: the state integrate_llm_data_async leaves, given the
\* state [db, segs, idioms] it finds (nothing is written when line 559 raises).
integrate_llm_data(st, llm_data) ==
    IF IntegrationRaises(llm_data) THEN st
    ELSE [db     |-> IntegrateWords(st.db, llm_data.wordData),
          segs   |-> IntegrateSegments(st.segs, llm_data.segmentData, llm_data.segmentOrder),
          idioms |-> IntegrateIdioms(st.idioms, llm_data.idioms)]

-----------------------------------------------------------------------------
(* update_python_stats *)

\* The translation strings of the model, in the order sorted() gives them
SortedStrings == <<"s", "t1", "t2", "t3", "t9">>
StringSet == {SortedStrings[i] : i \in 1..Len(SortedStrings)}

\* sorted(list(S)) for a set S of strings
RECURSIVE SortFrom(_, _)
SortFrom(S, i) ==
    IF i > Len(SortedStrings) THEN <<>>
    ELSE (IF SortedStrings[i] \in S THEN <<SortedStrings[i]>> ELSE <<>>) \o SortFrom(S, i + 1)
SortedList(S) == SortFrom(S, 1)

Range(f) == {f[x] : x \in DOMAIN f}

\* f"{word_lower}|{pos}"
WordPosKey(entry) == <<Lower(GetOr(entry, "word", <<>>)), GetOr(entry, "pos", "TBD")>>

\* Line 360: the entries whose lemma is counted
CountsLemma(entry) ==
    GetOr(entry, "lemma", "TBD") # "TBD" /\ GetOr(entry, "pos", "TBD") # "TBD"

\* Lines 352-365: the entries counted for a word|pos key
LemmaMembers(db, key) == {p \in DOMAIN db : WordPosKey(db[p]) = key /\ CountsLemma(db[p])}

\* Lines 367-370: the most frequent lemma of a word|pos key, or "" when no
\* entry of the key is counted.  most_common(1) returns, among the lemmas
\* with the highest count, the one counted first (the database is walked in
\* increasing word position).
MostFrequentLemma(db, key) ==
    LET members   == LemmaMembers(db, key)
        count(l)  == Cardinality({p \in members : db[p].lemma = l})
        firstAt(l) == CHOOSE p \in members : db[p].lemma = l /\
                         \A q \in members : db[q].lemma = l => p <= q
        lemmas    == {db[p].lemma : p \in members}
    IN  IF members = {} THEN ""
        ELSE CHOOSE l \in lemmas :
                \A m \in lemmas : \/ count(l) > count(m)
                                  \/ (count(l) = count(m) /\ firstAt(l) <= firstAt(m))

\* Line 380
AssignMostFrequentLemma(db) ==
    [p \in DOMAIN db |->
        LET key == WordPosKey(db[p])
        IN  DictSet(db[p], "most_frequent_lemma",
                    IF LemmaMembers(db, key) # {} THEN MostFrequentLemma(db, key)
                    ELSE GetOr(db[p], "lemma", "TBD"))]

\* x or 'null'
OrNull(x) == IF x = "" THEN "null" ELSE x

\* Lines 391 and 416 with first_inst in the place of the lemma
RefinedGroupKeyByFirstInst(entry) ==
    <<Lower(GetOr(entry, "word", <<>>)),
      GetOr(entry, "first_inst", "TBD"),
      OrNull(GetOr(entry, "pos", "TBD"))>>

\* Lines 391 and 416: f"{word_lower}|{mfl or 'null'}|{pos or 'null'}"
RefinedGroupKey(entry) ==
    <<Lower(GetOr(entry, "word", <<>>)),
      OrNull(GetOr(entry, "most_frequent_lemma", "TBD")),
      OrNull(GetOr(entry, "pos", "TBD"))>>

\* A list nested in a list of translations, as its JSON text
NestedList == "[\"s\"]"

\* Lines 397 and 428: set.update(pt) raises TypeError on an element that is
\* not hashable (a nested list)
Unhashable(list) == \E i \in 1..Len(list) : list[i] = NestedList

ListField(entry, k) == GetOr(entry, k, <<>>)

\* Does update_python_stats raise on this database?
StatsRaises(db) ==
    \E p \in DOMAIN db : \/ Unhashable(ListField(db[p], "possible_translations"))
                         \/ Unhashable(ListField(db[p], "lemma_translations"))

\* Line 419: the first entry of its refined group in increasing word position
FirstInst(db, p) ==
    ~ \E q \in DOMAIN db : q < p /\ RefinedGroupKey(db[q]) = RefinedGroupKey(db[p])

\* Lines 383-432 on a database whose most_frequent_lemma is assigned
StampGroups(db) ==
    [p \in DOMAIN db |->
        LET group == {q \in DOMAIN db : RefinedGroupKey(db[q]) = RefinedGroupKey(db[p])}
            pts   == UNION {Range(ListField(db[q], "possible_translations")) : q \in group}
            lts   == UNION {Range(ListField(db[q], "lemma_translations")) : q \in group}
            e1    == DictSet(db[p], "first_inst", Bool(FirstInst(db, p)))
            e2    == DictSet(e1, "freq_till_now", Num(Cardinality({q \in group : q <= p})))
            e3    == DictSet(e2, "freq", Num(Cardinality(group)))
            e4    == DictSet(e3, "possible_translations", SortedList(pts))
        IN  DictSet(e4, "lemma_translations", SortedList(lts))]

\* Lines 341-435, for a database on which the pass does not raise
update_python_stats(db) == IF DOMAIN db = {} THEN db ELSE StampGroups(AssignMostFrequentLemma(db))

-----------------------------------------------------------------------------
(* clear_data and the integration of reprocess_word_range *)

\* Lines 861-863 and 938-940: an idiom fully inside [lo, hi]
IdiomInside(idiom, lo, hi) ==
    GetOr(idiom, "startWordKey", -1) >= lo /\ GetOr(idiom, "endWordKey", -1) <= hi

RECURSIVE SelectSeqBy(_, _, _, _)
SelectSeqBy(list, Keep(_, _, _), a, b) ==
    IF list = <<>> THEN <<>>
    ELSE (IF Keep(Head(list), a, b) THEN <<Head(list)>> ELSE <<>>)
         \o SelectSeqBy(Tail(list), Keep, a, b)

IdiomOutside(idiom, lo, hi) == ~IdiomInside(idiom, lo, hi)

\* Lines 904-912 for one entry, with only the lemma fields reset
ClearEntryLemmaOnly(entry) ==
    DictSet(DictSet(entry, "lemma", "TBD"), "most_frequent_lemma", "TBD")

\* Lines 904-912 for one entry
ClearEntry(entry) ==
    LET e1 == DictSet(entry, "pos", "TBD")
        e2 == DictSet(e1, "lemma", "TBD")
        e3 == DictSet(e2, "best_translation", "TBD")
        e4 == DictSet(e3, "possible_translations", <<>>)
        e5 == DictSet(e4, "details", <<>>)
        e6 == DictSet(e5, "lemma_translations", <<>>)
    IN  DictSet(e6, "most_frequent_lemma", "TBD")

SetMin(S) == CHOOSE x \in S : \A y \in S : x <= y
SetMax(S) == CHOOSE x \in S : \A y \in S : x >= y

\* Line 927: a custom segment exactly over the batch range, other than the
\* batch's own segment
SegmentKept(seg, range, target_segment_id) ==
    ~(/\ GetOr(seg, "startWordKey", -1) = range[1]
      /\ GetOr(seg, "endWordKey", -1) = range[2]
      /\ Get(seg, "id") # target_segment_id)

\* Lines 916-930; target_segment_id is PyNone when no segment is given.
\* (min() of an empty key set raises ValueError: ClearRaises.)
ClearSegments(segs, target_word_keys, target_segment_id) ==
    IF target_segment_id = PyNone THEN segs
    ELSE LET seg_idx == FindById(segs, target_segment_id)
             reset   == IF seg_idx # 0
                        THEN [segs EXCEPT ![seg_idx] = DictSet(@, "translations", <<>>)]
                        ELSE segs
         IN  SelectSeqBy(reset, SegmentKept,
                         <<SetMin(target_word_keys), SetMax(target_word_keys)>>,
                         target_segment_id)

ClearRaises(target_word_keys, target_segment_id) ==
    target_segment_id # PyNone /\ target_word_keys = {}

\* Lines 890-946 with the loop of line 900 over every key of the database
clear_data_every_entry(st, target_word_keys, target_segment_id) ==
    [db     |-> [p \in DOMAIN st.db |-> ClearEntry(st.db[p])],
     segs   |-> ClearSegments(st.segs, target_word_keys, target_segment_id),
     idioms |-> st.idioms]

\* Lines 890-946: the state clear_data leaves
clear_data(st, target_word_keys, target_segment_id) ==
    [db     |-> [p \in DOMAIN st.db |->
                    IF p \in target_word_keys THEN ClearEntry(st.db[p]) ELSE st.db[p]],
     segs   |-> ClearSegments(st.segs, target_word_keys, target_segment_id),
     idioms |-> IF target_word_keys = {} THEN st.idioms
                ELSE SelectSeqBy(st.idioms, IdiomOutside,
                                 SetMin(target_word_keys), SetMax(target_word_keys))]

\* Lines 816-832 without the range test of line 820
ReprocessWordsAnywhere(db, start_word, end_word, response_word_data) ==
    IntegrateWords(db, response_word_data)

\* Lines 816-832: the words of a reprocess response are applied only at the
\* positions of the requested range.
ReprocessWords(db, start_word, end_word, response_word_data) ==
    [p \in DOMAIN db |->
        IF /\ p \in DOMAIN response_word_data
           /\ start_word <= p /\ p <= end_word
           /\ WordDataApplies(db, p, response_word_data[p])
        THEN MergeWordData(db[p], response_word_data[p])
        ELSE db[p]]

\* Lines 835-855: upsert of the custom segment of the range
ReprocessSegment(segs, start_word, end_word, response_segment_data) ==
    LET custom_segment_id == SegmentId(start_word, end_word)
        resp  == response_segment_data[custom_segment_id]
    IN  IF \/ custom_segment_id \notin DOMAIN response_segment_data
           \/ DOMAIN resp = {}
           \/ "translations" \notin DOMAIN resp
           \/ ~IsDict(resp.translations)
        THEN segs
        ELSE LET fixed == DictSet(DictSet(DictSet(resp, "id", custom_segment_id),
                                          "startWordKey", start_word),
                                  "endWordKey", end_word)
                 found_idx == FindById(segs, custom_segment_id)
             IN  IF found_idx # 0
                 THEN [segs EXCEPT ![found_idx] = DictUpdate(@, fixed)]
                 ELSE Append(segs, fixed)

\* Lines 869-873 without the range test of line 871
IdiomAcceptedAnywhere(idiom, lo, hi) ==
    IsDict(idiom) /\ IdiomKeys \subseteq DOMAIN idiom

\* Lines 869-873: a well-formed idiom of the response inside the range
IdiomAccepted(idiom, lo, hi) ==
    IsDict(idiom) /\ IdiomKeys \subseteq DOMAIN idiom /\ IdiomInside(idiom, lo, hi)

\* Lines 861-876
ReprocessIdioms(idioms, start_word, end_word, response_idioms) ==
    SelectSeqBy(idioms, IdiomOutside, start_word, end_word)
      \o SelectSeqBy(response_idioms, IdiomAccepted, start_word, end_word)

\* Lines 809-879: the state the targeted integration of reprocess_word_range leaves
reprocess_integrate(st, start_word, end_word, llm_data) ==
    [db     |-> ReprocessWords(st.db, start_word, end_word, llm_data.wordData),
     segs   |-> ReprocessSegment(st.segs, start_word, end_word, llm_data.segmentData),
     idioms |-> ReprocessIdioms(st.idioms, start_word, end_word, llm_data.idioms)]

-----------------------------------------------------------------------------
(* The persisted document: the final save of main_processing_logic and     *)
(* load_progress                                                           *)

\* No file at the path
NoDoc == [missing |-> TRUE]

\* The final save with an empty knownWords list in place of the loaded one
SaveDocResetKnownWords(input_text, db, segs, idioms, known_words) ==
    [inputText    |-> input_text,
     wordDatabase |-> [k \in {StrOfInt(p) : p \in DOMAIN db} |-> db[IntOfStr(k)]],
     segments     |-> segs,
     idioms       |-> idioms,
     knownWords   |-> <<>>]

\* Lines 1191-1194: the document written by the final save
SaveDoc(input_text, db, segs, idioms, known_words) ==
    [inputText    |-> input_text,
     wordDatabase |-> [k \in {StrOfInt(p) : p \in DOMAIN db} |-> db[IntOfStr(k)]],
     segments     |-> segs,
     idioms       |-> idioms,
     knownWords   |-> known_words]

\* Line 108: the database load_progress rebuilds from a document
LoadDatabase(d) ==
    [p \in {IntOfStr(k) : k \in {x \in DOMAIN d.wordDatabase : IsDigit(x)}} |->
        d.wordDatabase[StrOfInt(p)]]

\* Lines 102 and 114: load_progress succeeds on a document of the pipeline
\* with a non-empty text
LoadSucceeds(d) == d # NoDoc /\ d.inputText # <<>>

-----------------------------------------------------------------------------
(* The annotation service: what a call can return.  The service is outside  *)
(* the repository; these are the responses the model lets it give.          *)

\* The reprocess task has id 0, the task of batch k has id k.
ReprocessTask == 0

\* A translation that tells the tasks apart
TranslationOf(id) == IF id = ReprocessTask THEN "t9" ELSE SortedStrings[id + 1]

\* The word as the service echoes it: never the text on file
EchoWord(w) == Lower(w) \o <<"s">>

WordDataFull(w, id) ==
    [word |-> EchoWord(w), pos |-> "NOUN", lemma |-> "l",
     best_translation |-> TranslationOf(id),
     possible_translations |-> <<TranslationOf(id), "s">>,
     details |-> [case |-> "nom"]]

\* pos and best_translation come back, the lemma does not
WordDataNoLemma(w, id) ==
    [word |-> EchoWord(w), pos |-> "NOUN", best_translation |-> TranslationOf(id)]

\* possible_translations holds a nested list
WordDataIllTyped(w, id) ==
    [WordDataFull(w, id) EXCEPT !.possible_translations = <<NestedList>>]

SegmentEntry(seg_id, lo, hi, id) ==
    [id |-> seg_id, startWordKey |-> lo, endWordKey |-> hi,
     translations |-> [en |-> TranslationOf(id)]]

IdiomEntry(lo, hi, id) ==
    [id |-> <<"idiom", id>>, text |-> TranslationOf(id), startWordKey |-> lo, endWordKey |-> hi]

WordOrUnknown(toks, words, p) == IF p \in 1..words THEN WordTextAt(toks, p) ELSE <<"x">>

\* One validated response: the words of K as V gives them, the segment and
\* an idiom of the range lo..hi or not.
Response(toks, words, id, K, V(_, _), with_segment, seg_id, lo, hi, bad_digit_key) ==
    [wordData     |-> [p \in K |-> V(WordOrUnknown(toks, words, p), id)],
     segmentData  |-> IF with_segment THEN [k \in {seg_id} |-> SegmentEntry(seg_id, lo, hi, id)]
                      ELSE [k \in {} |-> 0],
     segmentOrder |-> IF with_segment THEN <<seg_id>> ELSE <<>>,
     idioms       |-> IF with_segment THEN <<IdiomEntry(lo, hi, id)>> ELSE <<>>,
     badDigitKey  |-> bad_digit_key]

\* The validated responses to a request about the word positions keys, the
\* segment seg_id and the range lo..hi, in a document of `words` words:
\* the words of the request with their segment and an idiom; an ill-typed
\* field; a key that isdigit() accepts and int() rejects.
Responses(toks, words, id, keys, seg_id, lo, hi) ==
    { Response(toks, words, id, keys, WordDataFull, TRUE, seg_id, lo, hi, FALSE),
      Response(toks, words, id, keys, WordDataIllTyped, FALSE, seg_id, lo, hi, FALSE),
      Response(toks, words, id, keys, WordDataFull, TRUE, seg_id, lo, hi, TRUE) }

\* Further responses: every word of the document; no lemma; a position the
\* document does not have.
OtherResponses(toks, words, id, keys, seg_id, lo, hi) ==
    { Response(toks, words, id, 1..words, WordDataFull, TRUE, seg_id, lo, hi, FALSE),
      Response(toks, words, id, keys, WordDataNoLemma, FALSE, seg_id, lo, hi, FALSE),
      Response(toks, words, id, {words + 1}, WordDataFull, FALSE, seg_id, lo, hi, FALSE) }

\* Line 485: the structure returned for a blocked response
EmptyResponse ==
    [wordData |-> [k \in {} |-> 0], segmentData |-> [k \in {} |-> 0],
     segmentOrder |-> <<>>, idioms |-> <<>>, badDigitKey |-> FALSE]

-----------------------------------------------------------------------------
(* The tokenize / split / boundaries pipeline on bounded inputs *)

\* No operation yet
NoOp == [kind |-> "none", n |-> 0]

\* The variables outside the tokenize/split/boundaries pipeline, at rest
IdleRest ==
    /\ mode = "none"
    /\ mpc = "idle"
    /\ concurrency = 0
    /\ args = [up_to_batch |-> 0, process_batches |-> {}]
    /\ global_database = <<>>
    /\ global_segment_database = <<>>
    /\ global_idiom_database = <<>>
    /\ global_known_words = <<>>
    /\ reprocess_range = <<>>
    /\ tpc = <<>>
    /\ validation_attempt = <<>>
    /\ attempt = <<>>
    /\ validated_data = <<>>
    /\ tstatus = <<>>
    /\ tlocal = <<>>
    /\ sem = 0
    /\ lock_holders = {}
    /\ faults = 0
    /\ processed_at_start = {}
    /\ called = {}
    /\ saved = FALSE
    /\ op = NoOp

Alphabet == {"a", "'", " ", ",", "."}
Texts == SeqsUpTo(Alphabet, MaxLen)

DEFAULT_BACKWARD_SEARCH_RANGE == 5
DEFAULT_FORWARD_SEARCH_RANGE == 15

\* "Hello, world! Hello again."
HelloText ==
    <<"H", "e", "l", "l", "o", ",", " ", "w", "o", "r", "l", "d", "!", " ",
      "H", "e", "l", "l", "o", " ", "a", "g", "a", "i", "n", ".">>

\* Texts with line breaks: words, blanks and newlines
MaxLines == 4
LineTexts == SeqsUpTo({"a", " ", "\n"}, MaxLines)

\* Every short text with every small batch size and search range, the
\* text HelloText with batch size 2 and the default ranges of line 1006,
\* and every short text with line breaks with batch sizes 1 and 2.
InitSplit ==
    /\ \/ /\ text \in Texts
          /\ target_word_count \in 0..MaxTarget
          /\ backward_range \in 0..MaxRange
          /\ forward_range \in 0..MaxRange
       \/ /\ text \in LineTexts
          /\ target_word_count \in 1..2
          /\ backward_range = 1
          /\ forward_range = 1
       \/ /\ text = HelloText
          /\ target_word_count = 2
          /\ backward_range = DEFAULT_BACKWARD_SEARCH_RANGE
          /\ forward_range = DEFAULT_FORWARD_SEARCH_RANGE
    /\ all_tokens = <<>>
    /\ global_word_counter = 0
    /\ split_points = <<>>
    /\ boundaries = <<>>
    /\ spc = "input"
    /\ doc = NoDoc
    /\ IdleRest

\* tokenize_text_only(text_to_use)
TokenizeTextOnly ==
    /\ spc = "input"
    /\ LET r == tokenize_text_only(text)
       IN  /\ all_tokens' = r.tokens
           /\ global_word_counter' = r.words
    /\ spc' = "tokenized"
    /\ UNCHANGED <<text, target_word_count, backward_range, forward_range,
                   split_points, boundaries,
                   dataVars, taskVars, runVars>>

\* split_points = find_split_points(args.batch_size, B, F)
FindSplitPoints ==
    /\ spc = "tokenized"
    /\ split_points' = find_split_points(all_tokens, global_word_counter,
                          target_word_count, backward_range, forward_range)
    /\ spc' = "split"
    /\ UNCHANGED <<text, all_tokens, global_word_counter, target_word_count,
                   backward_range, forward_range, boundaries,
                   dataVars, taskVars, runVars>>

\* boundaries = calculate_batch_boundaries(split_points)
CalculateBatchBoundaries ==
    /\ spc = "split"
    /\ boundaries' = calculate_batch_boundaries(all_tokens, split_points)
    /\ spc' = "bounded"
    /\ UNCHANGED <<text, all_tokens, global_word_counter, target_word_count,
                   backward_range, forward_range, split_points,
                   dataVars, taskVars, runVars>>

NextSplit == TokenizeTextOnly \/ FindSplitPoints \/ CalculateBatchBoundaries

SpecSplit == InitSplit /\ [][NextSplit]_vars

-----------------------------------------------------------------------------
(* A run of main_processing_logic: one invocation of the script, from the   *)
(* mode determination to the final save.  Code between two awaits runs      *)
(* without interleaving; each action below is one such stretch.             *)

MAX_API_RETRIES == 3
MAX_VALIDATION_RETRIES == 6
RETRY_DELAY_SECONDS == 5
API_RETRY_DELAY_SECONDS == 10
CONTEXT_WORD_WINDOW == 5
MIN_RANGE_FOR_CONTEXT == 7

MaxConcurrency == 2
MaxFaults == 6

\* The texts of the runs: three words in three or two batches, and a text
\* without a word.
RunTexts == { <<"A", ",", " ", "b", ".", " ", "a">>, <<".">> }
BatchSizes == {1, 2}

DataState == [db |-> global_database, segs |-> global_segment_database, idioms |-> global_idiom_database]

\* Lines 992-994: the state a fresh or initialize run starts from
FreshState(t) ==
    LET tk == tokenize_text_only(t)
    IN  [db     |-> update_python_stats(EnsureWordEntries(tk.tokens, tk.words, <<>>)),
         segs   |-> <<>>,
         idioms |-> <<>>]

\* Lines 975-980: the state load_progress gives
LoadedState(d) == [db |-> LoadDatabase(d), segs |-> d.segments, idioms |-> d.idioms]

\* The batches reported as processed by the test that looks at the lemma too
ProcessedBatchesWithLemma(db, bd) ==
    {idx \in DOMAIN bd : is_batch_already_processed(db, bd[idx].wordKeys)}

\* Lines 1029-1031 and 1099-1102: the batches is_batch_processed reports as processed
ProcessedBatches(db, bd) == {idx \in DOMAIN bd : is_batch_processed(db, bd[idx].wordKeys)}

\* Lines 1095-1102, mutated: no batch is skipped
UnprocessedBatchesAll(db, bd) == DOMAIN bd

\* Lines 1095-1102
UnprocessedBatches(db, bd) == {idx \in DOMAIN bd : ~is_batch_processed(db, bd[idx].wordKeys)}

\* Lines 1109-1125: up_to_batch 0 stands for None as well (line 1110 treats
\* them alike); an empty process_batches stands for None.
BatchesToRun(unprocessed, a) ==
    IF a.up_to_batch > 0 THEN {idx \in unprocessed : idx <= a.up_to_batch}
    ELSE IF a.process_batches # {} THEN {idx \in unprocessed : idx \in a.process_batches}
    ELSE unprocessed

\* Documents left by earlier runs on the text: the initialized document with
\* the words of S annotated, the lemma included or not.
AnnotatedDoc(t, S, with_lemma) ==
    LET tk == tokenize_text_only(t)
        st == FreshState(t)
        wd == [p \in S |-> IF with_lemma THEN WordDataFull(WordTextAt(tk.tokens, p), 1)
                           ELSE WordDataNoLemma(WordTextAt(tk.tokens, p), 1)]
    IN  SaveDoc(t, update_python_stats(IntegrateWords(st.db, wd)), <<>>, <<>>, <<>>)

PriorDocs(t) ==
    LET words == tokenize_text_only(t).words
    IN  {NoDoc} \cup {AnnotatedDoc(t, S, TRUE) : S \in {{}, {1} \cap (1..words), 1..words}}
                \cup {AnnotatedDoc(t, S, FALSE) : S \in {{1} \cap (1..words)}}

ArgChoices ==
    { [up_to_batch |-> 0, process_batches |-> {}],
      [up_to_batch |-> 1, process_batches |-> {}],
      [up_to_batch |-> -1, process_batches |-> {}],
      [up_to_batch |-> 0, process_batches |-> {2}] }

\* Lines 1247-1249: every mode but fresh and initialize needs the document
NeedsDoc(m) == m \notin {"fresh", "initialize"}

Modes == {"fresh", "initialize", "check_status", "reprocess_range", "clear_batch",
          "clear_range", "resume_batches"}

\* A run with a negative --up-to-batch is a resume run; it is followed with
\* one permit.
Init ==
    /\ text \in RunTexts
    /\ mode \in Modes
    /\ doc \in IF NeedsDoc(mode) THEN PriorDocs(text) \ {NoDoc} ELSE {NoDoc}
    /\ target_word_count \in BatchSizes
    /\ concurrency \in 1..MaxConcurrency
    /\ args \in ArgChoices
    /\ args.up_to_batch < 0 => (mode = "resume_batches" /\ concurrency = 1)
    /\ backward_range = DEFAULT_BACKWARD_SEARCH_RANGE
    /\ forward_range = DEFAULT_FORWARD_SEARCH_RANGE
    /\ all_tokens = <<>>
    /\ global_word_counter = 0
    /\ split_points = <<>>
    /\ boundaries = <<>>
    /\ spc = "run"
    /\ mpc = "idle"
    /\ global_database = <<>>
    /\ global_segment_database = <<>>
    /\ global_idiom_database = <<>>
    /\ global_known_words = <<>>
    /\ reprocess_range = <<>>
    /\ tpc = <<>>
    /\ validation_attempt = <<>>
    /\ attempt = <<>>
    /\ validated_data = <<>>
    /\ tstatus = <<>>
    /\ tlocal = <<>>
    /\ sem = 0
    /\ lock_holders = {}
    /\ faults = 0
    /\ processed_at_start = {}
    /\ called = {}
    /\ saved = FALSE
    /\ op = NoOp

\* Lines 980/993 and 1002-1010: the tokens, split points and boundaries of the run
Prepare(t) ==
    LET tk == tokenize_text_only(t)
    IN  /\ all_tokens' = tk.tokens
        /\ global_word_counter' = tk.words
        /\ split_points' = find_split_points(all_tokens', global_word_counter',
                               target_word_count, backward_range, forward_range)
        /\ boundaries' = calculate_batch_boundaries(all_tokens', split_points')

SetData(st) ==
    /\ global_database' = st.db
    /\ global_segment_database' = st.segs
    /\ global_idiom_database' = st.idioms

\* Lines 716-742: the word positions sent with a reprocess request
ContextKeys(start_word, end_word, words) ==
    IF end_word - start_word + 1 < MIN_RANGE_FOR_CONTEXT
    THEN Max2(1, start_word - CONTEXT_WORD_WINDOW)..Min2(words, end_word + CONTEXT_WORD_WINDOW)
    ELSE start_word..end_word

\* {} as a dict
EmptyDict == [k \in {} |-> 0]

\* Lines 637-650: combined_data of process_batch_parallel, of which
\* combined_json_str is the JSON text
BatchCombinedData(st, batch_info) ==
    LET found_idx == FindById(st.segs, batch_info.segmentId)
        segment_data ==
            IF found_idx # 0 THEN st.segs[found_idx]
            ELSE [id |-> batch_info.segmentId,
                  startWordKey |-> batch_info.batchStartWordKey,
                  endWordKey |-> batch_info.batchEndWordKey,
                  translations |-> EmptyDict]
    IN  [wordData    |-> [k \in batch_info.wordKeys \cap DOMAIN st.db |-> st.db[k]],
         segmentData |-> [id \in {batch_info.segmentId} |-> segment_data],
         idioms      |-> SelectSeqBy(st.idioms, IdiomInside,
                                     batch_info.batchStartWordKey,
                                     batch_info.batchEndWordKey)]

\* Lines 751-770: combined_data of reprocess_word_range
RangeCombinedData(st, start_word, end_word, words) ==
    LET custom_segment_id == SegmentId(start_word, end_word)
    IN  [wordData    |-> [k \in ContextKeys(start_word, end_word, words) |->
                             GetOr(st.db, k, EmptyDict)],
         segmentData |-> [id \in {custom_segment_id} |->
                             [id |-> custom_segment_id, startWordKey |-> start_word,
                              endWordKey |-> end_word, translations |-> EmptyDict]],
         idioms      |-> <<>>]

\* The locals of a task when its coroutine has built its request: nothing
\* received, no sleep in progress, nothing returned
\* None in a local of a task (lines 654, 680-686, 692): the local holds a
\* text of the service or the JSON of the request otherwise
NoText == [is_none |-> TRUE]

TaskLocals(combined_json_str) ==
    [combined_json_str |-> combined_json_str, llm_response_text |-> NoText,
     delay |-> 0, returned |-> <<>>]

\* The k-th text the service returned to task b, a text that does not validate
InvalidText(b, k) == [invalid |-> TRUE, task |-> b, call |-> k]

\* Lines 1128-1138 (and 1077-1079): the lock, the semaphore and the tasks;
\* each task builds its request from the data as the run starts with it
\* (lines 637-655 and 751-776 run before the first await of the task).
CreateTasks(ids) ==
    /\ tpc' = [b \in ids |-> "acquire"]
    /\ tlocal' = [b \in ids |->
                    TaskLocals(IF b = ReprocessTask
                               THEN RangeCombinedData(DataState', reprocess_range'[1],
                                        reprocess_range'[2], global_word_counter')
                               ELSE BatchCombinedData(DataState', boundaries'[b]))]
    /\ validation_attempt' = [b \in ids |-> 0]
    /\ attempt' = [b \in ids |-> 0]
    /\ validated_data' = [b \in ids |-> EmptyResponse]
    /\ tstatus' = [b \in ids |-> "running"]
    /\ sem' = concurrency
    /\ lock_holders' = {}
    /\ faults' = 0
    /\ called' = {}

RunFrame == UNCHANGED <<target_word_count, backward_range, forward_range, spc, mode, concurrency, args, doc, saved, op>>

NoFilter == args.up_to_batch = 0 /\ args.process_batches = {}

\* Lines 960-966 and 1230-1253: the mode and the filters that go together
ModeIs(m) ==
    /\ mpc = "idle"
    /\ mode = m
    /\ m \in {"fresh", "resume_batches"} \/ NoFilter
    /\ m = "fresh" => args.process_batches = {}

\* Lines 971-994: the text, the tokens and the databases the run starts
\* with, loaded from the document or built from the input file
LoadOrInitialize ==
    /\ NeedsDoc(mode) => LoadSucceeds(doc)
    /\ text' = IF NeedsDoc(mode) THEN doc.inputText ELSE text
    /\ global_known_words' = IF NeedsDoc(mode) THEN doc.knownWords ELSE <<>>
    /\ Prepare(text')
    /\ RunFrame

\* The databases of lines 975 and 992-994, given the tokens of the run
StartState ==
    IF NeedsDoc(mode) THEN LoadedState(doc)
    ELSE [db     |-> update_python_stats(
                         EnsureWordEntries(all_tokens', global_word_counter', <<>>)),
          segs   |-> <<>>,
          idioms |-> <<>>]

\* Lines 1003-1005: no word in the text, the run returns without a save
StartNoWords(m) ==
    /\ ModeIs(m)
    /\ LoadOrInitialize
    /\ global_word_counter' = 0
    /\ SetData(StartState)
    /\ CreateTasks({})
    /\ mpc' = "exited"
    /\ UNCHANGED <<reprocess_range, processed_at_start>>

\* Lines 1093-1142 of a fresh or resume run, up to the gather (with no
\* batch to run, up to the final steps)
StartBatches(m) ==
    /\ m \in {"fresh", "resume_batches"}
    /\ ModeIs(m)
    /\ LoadOrInitialize
    /\ global_word_counter' > 0
    /\ SetData(StartState)
    /\ processed_at_start' = ProcessedBatches(global_database', boundaries')
    /\ CreateTasks(BatchesToRun(UnprocessedBatches(global_database', boundaries'), args))
    /\ mpc' = "gather"
    /\ UNCHANGED reprocess_range

\* Lines 1067-1080: a reprocess run, up to the gather
StartReprocess(start_word, end_word) ==
    /\ ModeIs("reprocess_range")
    /\ LoadOrInitialize
    /\ global_word_counter' > 0
    /\ start_word > 0 /\ end_word >= start_word /\ end_word <= global_word_counter'
    /\ SetData(StartState)
    /\ reprocess_range' = <<start_word, end_word>>
    /\ CreateTasks({ReprocessTask})
    /\ mpc' = "gather"
    /\ UNCHANGED processed_at_start

\* Lines 1015-1019: initialize only, up to the final steps
StartInitialize ==
    /\ ModeIs("initialize")
    /\ LoadOrInitialize
    /\ global_word_counter' > 0
    /\ SetData(StartState)
    /\ CreateTasks({})
    /\ mpc' = "gather"
    /\ UNCHANGED <<reprocess_range, processed_at_start>>

\* Lines 1021-1042: check status only
StartCheckStatus ==
    /\ ModeIs("check_status")
    /\ LoadOrInitialize
    /\ global_word_counter' > 0
    /\ SetData(StartState)
    /\ processed_at_start' = ProcessedBatches(global_database', boundaries')
    /\ CreateTasks({})
    /\ mpc' = "exited"
    /\ UNCHANGED reprocess_range

\* Lines 1044-1051: clear a batch, up to the final steps (min() raises on a
\* batch without a word, line 923)
StartClearBatch(target_batch_index) ==
    /\ ModeIs("clear_batch")
    /\ LoadOrInitialize
    /\ global_word_counter' > 0
    /\ target_batch_index \in DOMAIN boundaries'
    /\ CreateTasks({})
    /\ LET batch_info == boundaries'[target_batch_index]
       IN  IF ClearRaises(batch_info.wordKeys, batch_info.segmentId)
           THEN SetData(StartState) /\ mpc' = "crashed"
           ELSE /\ SetData(clear_data(StartState, batch_info.wordKeys, batch_info.segmentId))
                /\ mpc' = "gather"
    /\ UNCHANGED <<reprocess_range, processed_at_start>>

\* Lines 1053-1065: clear a word range, up to the final steps
StartClearRange(start_word, end_word) ==
    /\ ModeIs("clear_range")
    /\ LoadOrInitialize
    /\ global_word_counter' > 0
    /\ start_word > 0 /\ end_word >= start_word /\ end_word <= global_word_counter'
    /\ CreateTasks({})
    /\ SetData(clear_data(StartState, start_word..end_word, PyNone))
    /\ mpc' = "gather"
    /\ UNCHANGED <<reprocess_range, processed_at_start>>

-----------------------------------------------------------------------------
(* The tasks of a run: process_batch_parallel for batch b >= 1,             *)
(* reprocess_word_range for ReprocessTask                                   *)

\* The responses the service can give to the request of task b
TaskResponses(b) ==
    IF b = ReprocessTask
    THEN Responses(all_tokens, global_word_counter, b,
                   ContextKeys(reprocess_range[1], reprocess_range[2], global_word_counter),
                   SegmentId(reprocess_range[1], reprocess_range[2]),
                   reprocess_range[1], reprocess_range[2])
    ELSE Responses(all_tokens, global_word_counter, b, boundaries[b].wordKeys,
                   boundaries[b].segmentId, boundaries[b].batchStartWordKey,
                   boundaries[b].batchEndWordKey)

Running(b) == mpc = "gather" /\ b \in DOMAIN tpc

TaskFrame == UNCHANGED <<splitVars, runVars>>

\* The task leaves its retry loops: the loop counters are dead from here on
LeaveLoops(b) ==
    /\ validation_attempt' = [validation_attempt EXCEPT ![b] = 0]
    /\ attempt' = [attempt EXCEPT ![b] = 0]

\* Line 493 without the exponential backoff
ApiWaitTimeFixed(attempt_no) == API_RETRY_DELAY_SECONDS

\* Line 493: wait_time after the failed attempt number attempt_no (from 0)
ApiWaitTime(attempt_no) == API_RETRY_DELAY_SECONDS * (2 ^ attempt_no)

\* Line 456, mutated: the semaphore lets every task in
PermitFreeAlways == TRUE

\* Line 456: a task enters `async with semaphore` when a permit is free
PermitFree == sem > 0

\* Line 456: async with semaphore; line 466: the request is sent
AcquireSemaphore(b) ==
    /\ Running(b)
    /\ tpc[b] = "acquire"
    /\ PermitFree
    /\ sem' = sem - 1
    /\ tpc' = [tpc EXCEPT ![b] = "calling"]
    /\ attempt' = [attempt EXCEPT ![b] = 0]
    /\ called' = called \cup {b}
    /\ UNCHANGED <<validation_attempt, validated_data, tstatus, tlocal, lock_holders, faults>>
    /\ UNCHANGED dataVars
    /\ TaskFrame

\* The task got a text that validates (lines 477, 667-671)
Validated(b, data) ==
    /\ tpc' = [tpc EXCEPT ![b] = "validated"]
    /\ sem' = sem + 1
    /\ validated_data' = [validated_data EXCEPT ![b] = data]
    /\ tlocal' = [tlocal EXCEPT ![b].llm_response_text = data]
    /\ LeaveLoops(b)
    /\ UNCHANGED <<tstatus, lock_holders, faults, called>>
    /\ UNCHANGED dataVars
    /\ TaskFrame

\* The task returns its outcome: the status, and with it
\* <<input_json, response_text>>; its locals are dead from here on
Outcome(b, status, input_json, response_text) ==
    /\ tpc' = [tpc EXCEPT ![b] = "done"]
    /\ tstatus' = [tstatus EXCEPT ![b] = status]
    /\ tlocal' = [tlocal EXCEPT ![b].returned = <<input_json, response_text>>,
                                ![b].llm_response_text = NoText,
                                ![b].delay = 0]
    /\ LeaveLoops(b)

\* The failed calls of a run are bounded in the runs that follow the data;
\* the runs that follow the termination of the tasks leave the service free
\* to fail every call, so that the retry loops alone end a task.
FaultsLeft == spc = "live" \/ faults < MaxFaults

\* Lines 471-477: the service answers with a text that validates
ServiceReturns(b) ==
    /\ Running(b)
    /\ tpc[b] = "calling"
    /\ \E data \in TaskResponses(b) : Validated(b, data)

\* Lines 478-485 without the except clause: the ValueError of response.text
\* reaches line 487 and is raised as a non-retryable error
ServiceBlockedRaises(b) ==
    /\ Running(b)
    /\ tpc[b] = "calling"
    /\ sem' = sem + 1
    /\ Outcome(b, "API_error", tlocal[b].combined_json_str, NoText)
    /\ UNCHANGED <<validated_data, lock_holders, faults, called>>
    /\ UNCHANGED dataVars
    /\ TaskFrame

\* Lines 478-485: the answer is blocked or empty, the empty structure is returned
ServiceBlocked(b) ==
    /\ Running(b)
    /\ tpc[b] = "calling"
    /\ Validated(b, EmptyResponse)

\* Line 674, with one more retry
ValidationRetryLeftOneMore(validation_attempt_no) ==
    validation_attempt_no < MAX_VALIDATION_RETRIES

\* Line 674: is there another validation attempt after the failed one?
ValidationRetryLeft(validation_attempt_no) ==
    validation_attempt_no < MAX_VALIDATION_RETRIES - 1

\* Lines 672-680: the service answers with a text that does not validate
ServiceReturnsInvalid(b) ==
    /\ Running(b)
    /\ tpc[b] = "calling"
    /\ FaultsLeft
    /\ faults' = faults + 1
    /\ sem' = sem + 1
    /\ IF ValidationRetryLeft(validation_attempt[b])
       THEN /\ tpc' = [tpc EXCEPT ![b] = "sleep_validation"]
            /\ attempt' = [attempt EXCEPT ![b] = 0]
            /\ tlocal' = [tlocal EXCEPT
                             ![b].llm_response_text =
                                 InvalidText(b, validation_attempt[b] + 1),
                             ![b].delay = RETRY_DELAY_SECONDS]
            /\ UNCHANGED <<validation_attempt, tstatus>>
       ELSE Outcome(b, "validation_failed", tlocal[b].combined_json_str,
                    InvalidText(b, validation_attempt[b] + 1))
    /\ UNCHANGED <<validated_data, lock_holders, called>>
    /\ UNCHANGED dataVars
    /\ TaskFrame

\* Line 676: the sleep before the next validation attempt is over
WakeValidation(b) ==
    /\ Running(b)
    /\ tpc[b] = "sleep_validation"
    /\ tpc' = [tpc EXCEPT ![b] = "acquire"]
    /\ validation_attempt' = [validation_attempt EXCEPT ![b] = @ + 1]
    /\ tlocal' = [tlocal EXCEPT ![b].delay = 0]
    /\ UNCHANGED <<attempt, validated_data, tstatus, sem, lock_holders, faults, called>>
    /\ UNCHANGED dataVars
    /\ TaskFrame

\* Lines 487-499 with a permit that is not given back when the last
\* attempt raises
ServiceRaisesTransientKeepsPermit(b) ==
    /\ Running(b)
    /\ tpc[b] = "calling"
    /\ FaultsLeft
    /\ faults' = faults + 1
    /\ IF attempt[b] < MAX_API_RETRIES - 1
       THEN /\ tpc' = [tpc EXCEPT ![b] = "sleep_api"]
            /\ tlocal' = [tlocal EXCEPT ![b].delay = ApiWaitTime(attempt[b])]
            /\ UNCHANGED <<attempt, validation_attempt, tstatus>>
       ELSE Outcome(b, "API_error", tlocal[b].combined_json_str, NoText)
    /\ UNCHANGED <<sem, validated_data, lock_holders, called>>
    /\ UNCHANGED dataVars
    /\ TaskFrame

\* Lines 487-499: the call raises a retryable error
ServiceRaisesTransient(b) ==
    /\ Running(b)
    /\ tpc[b] = "calling"
    /\ FaultsLeft
    /\ faults' = faults + 1
    /\ IF attempt[b] < MAX_API_RETRIES - 1
       THEN /\ tpc' = [tpc EXCEPT ![b] = "sleep_api"]
            /\ tlocal' = [tlocal EXCEPT ![b].delay = ApiWaitTime(attempt[b])]
            /\ UNCHANGED <<sem, attempt, validation_attempt, tstatus>>
       ELSE /\ sem' = sem + 1
            /\ Outcome(b, "API_error", tlocal[b].combined_json_str, NoText)
    /\ UNCHANGED <<validated_data, lock_holders, called>>
    /\ UNCHANGED dataVars
    /\ TaskFrame

\* Line 495: the backoff sleep is over, the next attempt is sent (the
\* permit was held all along)
WakeApi(b) ==
    /\ Running(b)
    /\ tpc[b] = "sleep_api"
    /\ tpc' = [tpc EXCEPT ![b] = "calling"]
    /\ attempt' = [attempt EXCEPT ![b] = @ + 1]
    /\ tlocal' = [tlocal EXCEPT ![b].delay = 0]
    /\ UNCHANGED <<validation_attempt, validated_data, tstatus, sem, lock_holders, faults, called>>
    /\ UNCHANGED dataVars
    /\ TaskFrame

\* Lines 500-503 and 682-686: the call raises an error that is not retried
ServiceRaisesFatal(b) ==
    /\ Running(b)
    /\ tpc[b] = "calling"
    /\ sem' = sem + 1
    /\ Outcome(b, "API_error", tlocal[b].combined_json_str, NoText)
    /\ UNCHANGED <<validated_data, lock_holders, faults, called>>
    /\ UNCHANGED dataVars
    /\ TaskFrame

\* Lines 554 and 809, mutated: the lock is entered whoever holds it
LockFreeAlways == TRUE

\* Lines 554 and 809: a task enters `async with lock` when nobody holds it
LockFree == lock_holders = {}

\* Lines 554 and 809: async with lock
AcquireLock(b) ==
    /\ Running(b)
    /\ tpc[b] = "validated"
    /\ LockFree
    /\ lock_holders' = lock_holders \cup {b}
    /\ tpc' = [tpc EXCEPT ![b] = "locked"]
    /\ UNCHANGED <<validation_attempt, attempt, validated_data, tstatus, tlocal, sem, faults, called>>
    /\ UNCHANGED dataVars
    /\ TaskFrame

\* Lines 557-604 and 693-697 (810-885 for the reprocess task): the
\* integration under the lock, the release of the lock and the outcome
IntegrateData(b) ==
    /\ Running(b)
    /\ tpc[b] = "locked"
    /\ lock_holders' = lock_holders \ {b}
    /\ IF b # ReprocessTask /\ IntegrationRaises(validated_data[b])
       THEN /\ Outcome(b, "integration_error", tlocal[b].combined_json_str,
                       tlocal[b].llm_response_text)
            /\ UNCHANGED dataVars
       ELSE /\ Outcome(b, "success", NoText, NoText)
            /\ SetData(IF b = ReprocessTask
                       THEN reprocess_integrate(DataState, reprocess_range[1],
                                                reprocess_range[2], validated_data[b])
                       ELSE integrate_llm_data(DataState, validated_data[b]))
            /\ UNCHANGED global_known_words
    /\ UNCHANGED <<validated_data, sem, faults, called>>
    /\ TaskFrame

\* Lines 1178-1198 in the other order: the document is written first, the
\* statistics are recalculated afterwards
FinishSaveFirst ==
    /\ mpc = "gather"
    /\ \A b \in DOMAIN tpc : tpc[b] = "done"
    /\ IF StatsRaises(global_database)
       THEN /\ mpc' = "crashed"
            /\ UNCHANGED <<global_database, doc, saved>>
       ELSE /\ doc' = SaveDoc(text, global_database, global_segment_database,
                              global_idiom_database, global_known_words)
            /\ global_database' = update_python_stats(global_database)
            /\ saved' = TRUE
            /\ mpc' = "done"
    /\ UNCHANGED <<splitVars, taskVars, global_segment_database, global_idiom_database,
                   global_known_words>>
    /\ UNCHANGED <<mode, concurrency, args, reprocess_range, processed_at_start, op>>

\* Lines 1142-1200 (1080-1091 for a reprocess run): the gather returns when
\* every task has its outcome; the final steps, common to the modes that
\* process or clear, follow: update_python_stats, then the final save.  An
\* exception of update_python_stats leaves main_processing_logic before the
\* save.
Finish ==
    /\ mpc = "gather"
    /\ \A b \in DOMAIN tpc : tpc[b] = "done"
    /\ IF StatsRaises(global_database)
       THEN /\ mpc' = "crashed"
            /\ UNCHANGED <<global_database, doc, saved>>
       ELSE /\ global_database' = update_python_stats(global_database)
            /\ doc' = SaveDoc(text, global_database', global_segment_database,
                              global_idiom_database, global_known_words)
            /\ saved' = TRUE
            /\ mpc' = "done"
    /\ UNCHANGED <<splitVars, taskVars, global_segment_database, global_idiom_database,
                   global_known_words>>
    /\ UNCHANGED <<mode, concurrency, args, reprocess_range, processed_at_start, op>>

MaxWords == 3
MaxBatches == 3

Next ==
    \/ \E m \in Modes : StartNoWords(m)
    \/ \E m \in Modes : StartBatches(m)
    \/ \E start_word \in 1..MaxWords, end_word \in 1..MaxWords : StartReprocess(start_word, end_word)
    \/ StartInitialize
    \/ StartCheckStatus
    \/ \E k \in 1..MaxBatches : StartClearBatch(k)
    \/ \E start_word \in 1..MaxWords, end_word \in 1..MaxWords : StartClearRange(start_word, end_word)
    \/ \E b \in 0..MaxBatches : AcquireSemaphore(b)
    \/ \E b \in 0..MaxBatches : ServiceReturns(b)
    \/ \E b \in 0..MaxBatches : ServiceBlocked(b)
    \/ \E b \in 0..MaxBatches : ServiceReturnsInvalid(b)
    \/ \E b \in 0..MaxBatches : WakeValidation(b)
    \/ \E b \in 0..MaxBatches : ServiceRaisesTransient(b)
    \/ \E b \in 0..MaxBatches : WakeApi(b)
    \/ \E b \in 0..MaxBatches : ServiceRaisesFatal(b)
    \/ \E b \in 0..MaxBatches : AcquireLock(b)
    \/ \E b \in 0..MaxBatches : IntegrateData(b)
    \/ Finish

Spec == Init /\ [][Next]_vars

(***************************************************************************)
(* The termination of the batch tasks: a fresh run on the three words in   *)
(* two batches, with both tasks or with the first one alone, one or two    *)
(* permits, and a service that may fail every call.                        *)
(***************************************************************************)

LiveArgs == { [up_to_batch |-> 0, process_batches |-> {}],
              [up_to_batch |-> 1, process_batches |-> {}] }

InitLive ==
    /\ text = <<"A", ",", " ", "b", ".", " ", "a">>
    /\ mode = "fresh"
    /\ doc = NoDoc
    /\ target_word_count = 2
    /\ concurrency \in 1..MaxConcurrency
    /\ args \in LiveArgs
    /\ backward_range = DEFAULT_BACKWARD_SEARCH_RANGE
    /\ forward_range = DEFAULT_FORWARD_SEARCH_RANGE
    /\ all_tokens = <<>>
    /\ global_word_counter = 0
    /\ split_points = <<>>
    /\ boundaries = <<>>
    /\ spc = "live"
    /\ mpc = "idle"
    /\ global_database = <<>>
    /\ global_segment_database = <<>>
    /\ global_idiom_database = <<>>
    /\ global_known_words = <<>>
    /\ reprocess_range = <<>>
    /\ tpc = <<>>
    /\ validation_attempt = <<>>
    /\ attempt = <<>>
    /\ validated_data = <<>>
    /\ tstatus = <<>>
    /\ tlocal = <<>>
    /\ sem = 0
    /\ lock_holders = {}
    /\ faults = 0
    /\ processed_at_start = {}
    /\ called = {}
    /\ saved = FALSE
    /\ op = NoOp

\* Lines 648-700: the steps of the task of batch b
TaskStep(b) ==
    \/ AcquireSemaphore(b)
    \/ ServiceReturns(b)
    \/ ServiceBlocked(b)
    \/ ServiceReturnsInvalid(b)
    \/ WakeValidation(b)
    \/ ServiceRaisesTransient(b)
    \/ WakeApi(b)
    \/ ServiceRaisesFatal(b)
    \/ AcquireLock(b)
    \/ IntegrateData(b)

NextLive ==
    \/ StartBatches("fresh")
    \/ \E b \in 1..MaxBatches : TaskStep(b)
    \/ Finish

\* The event loop runs every task that can take a step: a call of the
\* service returns or raises, a sleep ends, a free permit or a free lock is
\* given to a task waiting for it.  Nothing more is assumed about the order
\* in which the tasks run.  Every step of a task changes its position.
SpecLive ==
    /\ InitLive
    /\ [][NextLive]_vars
    /\ WF_tpc(\E b \in 1..MaxBatches : TaskStep(b))

-----------------------------------------------------------------------------
(* validate_llm_response and the texts the service can answer with.  A     *)
(* response text is written as what json.loads makes of it: is the text    *)
(* empty, does it parse, the type of the top-level value, the keys of the  *)
(* top-level object, the type of the value under each required key         *)
(* ("null" for a missing key, as dict.get gives None), and the parsed      *)
(* object.                                                                 *)

RequiredKeys == {"wordData", "segmentData", "idioms"}

\* What validate_llm_response returns for a text it does not accept (None)
ValidationFailed == [none |-> TRUE]

\* Lines 510-534 without the isinstance test of 'idioms' (line 530)
validate_llm_response_no_idioms_test(response_text) ==
    IF response_text.empty THEN ValidationFailed
    ELSE IF ~response_text.parses THEN ValidationFailed
    ELSE IF response_text.top # "dict" THEN ValidationFailed
    ELSE IF ~(RequiredKeys \subseteq response_text.keys) THEN ValidationFailed
    ELSE IF response_text.types["wordData"] # "dict" THEN ValidationFailed
    ELSE IF response_text.types["segmentData"] # "dict" THEN ValidationFailed
    ELSE response_text.parsed

\* Lines 510-543
validate_llm_response(response_text) ==
    IF response_text.empty THEN ValidationFailed
    ELSE IF ~response_text.parses THEN ValidationFailed
    ELSE IF response_text.top # "dict" THEN ValidationFailed
    ELSE IF ~(RequiredKeys \subseteq response_text.keys) THEN ValidationFailed
    ELSE IF response_text.types["wordData"] # "dict" THEN ValidationFailed
    ELSE IF response_text.types["segmentData"] # "dict" THEN ValidationFailed
    ELSE IF response_text.types["idioms"] # "list" THEN ValidationFailed
    ELSE response_text.parsed

\* Lines 669 and 689 (787 and 803): `if validated_data:`
Truthy(validated) == validated # ValidationFailed

\* A response text, given what json.loads makes of it
ResponseText(empty, parses, top, keys, wd, sd, idm, parsed) ==
    [empty |-> empty, parses |-> parses, top |-> top, keys |-> keys,
     types |-> [k \in RequiredKeys |->
                   IF k \notin keys THEN "null"
                   ELSE IF k = "wordData" THEN wd
                   ELSE IF k = "segmentData" THEN sd ELSE idm],
     parsed |-> parsed]

\* The text of a well-formed response object
GoodText(parsed) ==
    ResponseText(FALSE, TRUE, "dict", RequiredKeys, "dict", "dict", "list", parsed)

\* Texts around one parsed content that differ from the well-formed text in
\* one respect: no text, no JSON, a JSON array, a key missing, a container
\* of the wrong type.
BadTexts(parsed) ==
    { ResponseText(TRUE, FALSE, "null", {}, "null", "null", "null", parsed),
      ResponseText(FALSE, FALSE, "null", {}, "null", "null", "null", parsed),
      ResponseText(FALSE, TRUE, "list", {}, "null", "null", "null", parsed),
      ResponseText(FALSE, TRUE, "dict", {"wordData", "segmentData"}, "dict", "dict", "null", parsed),
      ResponseText(FALSE, TRUE, "dict", RequiredKeys, "list", "dict", "list", parsed),
      ResponseText(FALSE, TRUE, "dict", RequiredKeys, "dict", "str", "list", parsed),
      ResponseText(FALSE, TRUE, "dict", RequiredKeys, "dict", "dict", "dict", parsed) }

\* A response whose segmentData holds, under the key seg_key, an entry whose
\* 'id' field is entry_id
ResponseWithSegment(toks, words, id, K, seg_key, entry_id, lo, hi) ==
    [wordData     |-> [p \in K |-> WordDataFull(WordOrUnknown(toks, words, p), id)],
     segmentData  |-> [k \in {seg_key} |-> SegmentEntry(entry_id, lo, hi, id)],
     segmentOrder |-> <<seg_key>>,
     idioms       |-> <<IdiomEntry(lo, hi, id)>>,
     badDigitKey  |-> FALSE]

\* The words of batch b of bd with its segment and an idiom
OwnContent(toks, words, bd, b) ==
    ResponseWithSegment(toks, words, b, bd[b].wordKeys, bd[b].segmentId,
                        bd[b].segmentId, bd[b].batchStartWordKey, bd[b].batchEndWordKey)

\* An answer that gives the words of batch b a lemma and nothing else: the
\* empty string for the first batch, the string "null" for the others
LemmaOnlyContent(toks, words, bd, b) ==
    [wordData     |-> [p \in bd[b].wordKeys |->
                          [word  |-> EchoWord(WordOrUnknown(toks, words, p)),
                           lemma |-> IF b = 1 THEN "" ELSE "null"]],
     segmentData  |-> [k \in {} |-> 0],
     segmentOrder |-> <<>>,
     idioms       |-> <<>>,
     badDigitKey  |-> FALSE]

\* The parsed contents of the answers to the request of batch b of bd: the
\* words of the batch with its segment and an idiom; every word of the
\* document and a position the document does not have; the segment of the
\* batch stored under its key with the id of the first batch's segment; a
\* lemma alone.
BatchContents(toks, words, bd, b) ==
    { OwnContent(toks, words, bd, b),
      ResponseWithSegment(toks, words, b, 1..(words + 1), bd[b].segmentId,
                          bd[b].segmentId, bd[b].batchStartWordKey, bd[b].batchEndWordKey),
      ResponseWithSegment(toks, words, b, bd[b].wordKeys, bd[b].segmentId,
                          bd[1].segmentId, bd[b].batchStartWordKey, bd[b].batchEndWordKey),
      LemmaOnlyContent(toks, words, bd, b) }

\* The words of the context window of lo..hi with the custom segment and an
\* idiom of the range
ContextContent(toks, words, lo, hi) ==
    ResponseWithSegment(toks, words, ReprocessTask, ContextKeys(lo, hi, words),
                        SegmentId(lo, hi), SegmentId(lo, hi), lo, hi)

\* The idioms list of an answer to a reprocess request for lo..hi: an idiom
\* over the whole document, an idiom of the range without its 'text', and
\* an idiom of the range
RangeIdioms(words, lo, hi) ==
    << IdiomEntry(1, words, ReprocessTask),
       [id |-> <<"idiom", 2>>, startWordKey |-> lo, endWordKey |-> hi],
       IdiomEntry(lo, hi, 1) >>

\* The parsed contents of the answers to a reprocess request for lo..hi: the
\* words of the context window with the custom segment and an idiom of the
\* range; every word and an unknown position, the segment under the custom
\* key with another id, and the idioms RangeIdioms.
RangeContents(toks, words, lo, hi) ==
    { ContextContent(toks, words, lo, hi),
      [ResponseWithSegment(toks, words, ReprocessTask, 1..(words + 1),
                           SegmentId(lo, hi), SegmentId(1, words), 1, words)
         EXCEPT !.idioms = RangeIdioms(words, lo, hi)] }

\* The texts of the answers to the request of batch b
BatchTexts(toks, words, bd, b) ==
    IF b \notin DOMAIN bd THEN {}
    ELSE BadTexts(OwnContent(toks, words, bd, b))
            \cup {GoodText(c) : c \in BatchContents(toks, words, bd, b)}

\* The texts of the answers to a reprocess request for lo..hi
RangeTexts(toks, words, lo, hi) ==
    BadTexts(ContextContent(toks, words, lo, hi))
        \cup {GoodText(c) : c \in RangeContents(toks, words, lo, hi)}

-----------------------------------------------------------------------------
(* A document under a sequence of data operations: initialization, the     *)
(* integration of answers to batch and range requests, clears, statistics  *)
(* passes, saves and loads.  Each action is the data effect of one call,   *)
(* taken alone; op records the call and its arguments.                     *)

MaxOps == 3

DataText == <<"A", ",", " ", "b", ".", " ", "a">>
KnownWordsLists == { <<>>, <<"a::NOUN">> }

\* The document an initialize run on DataText has saved (lines 992-994 and
\* 1191-1194), in which another program has then written known words
InitializedDoc ==
    [SaveDoc(DataText,
             update_python_stats(tokenize_and_ensure_word_entries(DataText, <<>>).db),
             <<>>, <<>>, <<>>)
       EXCEPT !.knownWords = <<"a::NOUN">>]

\* Either there is no document, and the run is a fresh one, or there is
\* the document InitializedDoc, and the run resumes from it.
InitData ==
    /\ text = DataText
    /\ doc \in {NoDoc, InitializedDoc}
    /\ target_word_count \in BatchSizes
    /\ backward_range = DEFAULT_BACKWARD_SEARCH_RANGE
    /\ forward_range = DEFAULT_FORWARD_SEARCH_RANGE
    /\ all_tokens = <<>>
    /\ global_word_counter = 0
    /\ split_points = <<>>
    /\ boundaries = <<>>
    /\ spc = "data"
    /\ IdleRest

DataFrame ==
    UNCHANGED <<text, target_word_count, backward_range, forward_range, spc,
                taskVars, mode, mpc, concurrency, args, reprocess_range,
                processed_at_start, saved>>

Ready == spc = "data" /\ op.kind # "none" /\ op.n < MaxOps

\* Lines 992-994 and 1006-1008: the data of a fresh or initialize run
DataInitialize ==
    /\ spc = "data"
    /\ op.kind = "none"
    /\ doc = NoDoc
    /\ LET r == tokenize_and_ensure_word_entries(text, <<>>)
       IN  /\ all_tokens' = r.tokens
           /\ global_word_counter' = r.words
           /\ global_database' = update_python_stats(r.db)
    /\ global_segment_database' = <<>>
    /\ global_idiom_database' = <<>>
    /\ global_known_words' = <<>>
    /\ split_points' = find_split_points(all_tokens', global_word_counter',
                           target_word_count, backward_range, forward_range)
    /\ boundaries' = calculate_batch_boundaries(all_tokens', split_points')
    /\ op' = [kind |-> "initialize", n |-> 0]
    /\ UNCHANGED doc
    /\ DataFrame

\* Lines 667-693: the answer to the request of batch b is validated and, if
\* it is accepted, integrated
DataReceiveBatch(b, response_text) ==
    /\ Ready
    /\ b \in DOMAIN boundaries
    /\ LET validated_data_b == validate_llm_response(response_text)
       IN  /\ IF Truthy(validated_data_b)
              THEN SetData(integrate_llm_data(DataState, validated_data_b))
              ELSE UNCHANGED <<global_database, global_segment_database,
                               global_idiom_database>>
           /\ op' = [kind |-> "batch", n |-> op.n + 1, batch |-> b,
                     response_text |-> response_text]
    /\ UNCHANGED <<all_tokens, global_word_counter, split_points, boundaries,
                   global_known_words, doc>>
    /\ DataFrame

\* Lines 786-879: the answer to the reprocess request for lo..hi is validated
\* and, if it is accepted, integrated
DataReceiveRange(lo, hi, response_text) ==
    /\ Ready
    /\ lo > 0 /\ hi >= lo /\ hi <= global_word_counter
    /\ LET validated_data_r == validate_llm_response(response_text)
       IN  /\ IF Truthy(validated_data_r)
              THEN SetData(reprocess_integrate(DataState, lo, hi, validated_data_r))
              ELSE UNCHANGED <<global_database, global_segment_database,
                               global_idiom_database>>
           /\ op' = [kind |-> "range", n |-> op.n + 1, lo |-> lo, hi |-> hi,
                     response_text |-> response_text]
    /\ UNCHANGED <<all_tokens, global_word_counter, split_points, boundaries,
                   global_known_words, doc>>
    /\ DataFrame

\* Lines 1044-1051: clear_data on the words and the segment of a batch
DataClearBatch(target_batch_index) ==
    /\ Ready
    /\ target_batch_index \in DOMAIN boundaries
    /\ LET batch_info == boundaries[target_batch_index]
       IN  /\ ~ClearRaises(batch_info.wordKeys, batch_info.segmentId)
           /\ SetData(clear_data(DataState, batch_info.wordKeys, batch_info.segmentId))
           /\ op' = [kind |-> "clear", n |-> op.n + 1, keys |-> batch_info.wordKeys]
    /\ UNCHANGED <<all_tokens, global_word_counter, split_points, boundaries,
                   global_known_words, doc>>
    /\ DataFrame

\* Lines 1053-1065: clear_data on a word range
DataClearRange(start_word, end_word) ==
    /\ Ready
    /\ start_word > 0 /\ end_word >= start_word /\ end_word <= global_word_counter
    /\ SetData(clear_data(DataState, start_word..end_word, PyNone))
    /\ op' = [kind |-> "clear", n |-> op.n + 1, keys |-> start_word..end_word]
    /\ UNCHANGED <<all_tokens, global_word_counter, split_points, boundaries,
                   global_known_words, doc>>
    /\ DataFrame

\* Line 1182: global_database = update_python_stats(global_database)
DataStats ==
    /\ Ready
    /\ ~StatsRaises(global_database)
    /\ global_database' = update_python_stats(global_database)
    /\ op' = [kind |-> "stats", n |-> op.n + 1]
    /\ UNCHANGED <<all_tokens, global_word_counter, split_points, boundaries,
                   global_segment_database, global_idiom_database,
                   global_known_words, doc>>
    /\ DataFrame

\* Lines 1191-1198: the final save
DataSave ==
    /\ Ready
    /\ doc' = SaveDoc(text, global_database, global_segment_database,
                      global_idiom_database, global_known_words)
    /\ op' = [kind |-> "save", n |-> op.n + 1]
    /\ UNCHANGED <<all_tokens, global_word_counter, split_points, boundaries, dataVars>>
    /\ DataFrame

\* Another program writes the list of known words into the document
EditKnownWords(known_words) ==
    /\ Ready
    /\ doc # NoDoc
    /\ doc.knownWords # known_words
    /\ doc' = [doc EXCEPT !.knownWords = known_words]
    /\ op' = [kind |-> "edit", n |-> op.n + 1]
    /\ UNCHANGED <<all_tokens, global_word_counter, split_points, boundaries, dataVars>>
    /\ DataFrame

\* Lines 975-980 and 1006-1008: load_progress, tokenize_text_only and the
\* batch boundaries at the start of a run that resumes from the document
DataLoad ==
    /\ spc = "data"
    /\ op.n < MaxOps
    /\ LoadSucceeds(doc)
    /\ SetData(LoadedState(doc))
    /\ global_known_words' = doc.knownWords
    /\ LET r == tokenize_text_only(doc.inputText)
       IN  /\ all_tokens' = r.tokens
           /\ global_word_counter' = r.words
    /\ split_points' = find_split_points(all_tokens', global_word_counter',
                           target_word_count, backward_range, forward_range)
    /\ boundaries' = calculate_batch_boundaries(all_tokens', split_points')
    /\ op' = [kind |-> "load", n |-> op.n + 1]
    /\ UNCHANGED doc
    /\ DataFrame

NextData ==
    \/ DataInitialize
    \/ \E b \in 1..MaxBatches :
          \E response_text \in BatchTexts(all_tokens, global_word_counter, boundaries, b) :
             DataReceiveBatch(b, response_text)
    \/ \E lo \in 1..MaxWords, hi \in 1..MaxWords :
          \E response_text \in RangeTexts(all_tokens, global_word_counter, lo, hi) :
             DataReceiveRange(lo, hi, response_text)
    \/ \E k \in 1..MaxBatches : DataClearBatch(k)
    \/ \E start_word \in 1..MaxWords, end_word \in 1..MaxWords : DataClearRange(start_word, end_word)
    \/ DataStats
    \/ DataSave
    \/ \E known_words \in KnownWordsLists : EditKnownWords(known_words)
    \/ DataLoad

SpecData == InitData /\ [][NextData]_vars

-----------------------------------------------------------------------------
(* reprocess_word_range on longer documents: the context window, the       *)
(* request and the targeted integration of one answer                      *)

MaxRangeWords == 13

\* n words, "a" and "b" in turn, separated by blanks
RECURSIVE WordsText(_)
WordsText(n) ==
    IF n = 0 THEN <<>>
    ELSE IF n = 1 THEN <<"a">>
    ELSE WordsText(n - 1) \o <<" ", IF n % 2 = 1 THEN "a" ELSE "b">>

\* Documents of 1..MaxRangeWords words, with or without punctuation and
\* blanks around the words
LongTexts ==
    {WordsText(n) : n \in 1..MaxRangeWords}
       \cup {<<".", " ">> \o WordsText(n) \o <<" ", ".">> : n \in 1..MaxRangeWords}

\* Lines 714-723 with the window added to every range
ContextWindowAlways(start_word, end_word, words) ==
    <<Max2(1, start_word - CONTEXT_WORD_WINDOW), Min2(words, end_word + CONTEXT_WORD_WINDOW)>>

\* Lines 714-723: <<context_start_word, context_end_word>>
ContextWindow(start_word, end_word, words) ==
    LET original_range_size == end_word - start_word + 1
    IN  IF original_range_size < MIN_RANGE_FOR_CONTEXT
        THEN <<Max2(1, start_word - CONTEXT_WORD_WINDOW),
               Min2(words, end_word + CONTEXT_WORD_WINDOW)>>
        ELSE <<start_word, end_word>>

\* Lines 727-741: the scan of all_tokens from token i on; st carries
\* context_start_token_idx, context_end_token_idx and context_word_keys.
RECURSIVE ContextScan(_, _, _, _, _)
ContextScan(toks, i, context_start_word, context_end_word, st) ==
    IF i >= Len(toks) THEN st
    ELSE LET token == Tok(toks, i)
         IN  IF token.type # "word"
             THEN ContextScan(toks, i + 1, context_start_word, context_end_word, st)
             ELSE LET wp == token.wordPos
                      s1 == IF wp >= context_start_word /\ st.context_start_token_idx = -1
                            THEN [st EXCEPT !.context_start_token_idx = i] ELSE st
                  IN  IF wp <= context_end_word
                      THEN ContextScan(toks, i + 1, context_start_word, context_end_word,
                              [s1 EXCEPT !.context_end_token_idx = i,
                                         !.context_word_keys =
                                            IF wp >= context_start_word
                                            THEN Append(@, wp) ELSE @])
                      ELSE s1

\* "".join(t['text'] for t in all_tokens[a:b + 1])
RECURSIVE JoinTokens(_, _, _)
JoinTokens(toks, a, b) ==
    IF a > b THEN <<>> ELSE Tok(toks, a).text \o JoinTokens(toks, a + 1, b)

\* str.strip()
RECURSIVE Strip(_)
Strip(s) ==
    IF s = <<>> THEN s
    ELSE IF Head(s) \in WhitespaceChars THEN Strip(Tail(s))
    ELSE IF s[Len(s)] \in WhitespaceChars THEN Strip(SubSeq(s, 1, Len(s) - 1))
    ELSE s

\* Lines 714-767: what reprocess_word_range prepares for the service, or
\* the status it returns at line 745
RangeRequest(st, toks, words, start_word, end_word) ==
    LET cw   == ContextWindow(start_word, end_word, words)
        scan == ContextScan(toks, 0, cw[1], cw[2],
                            [context_start_token_idx |-> -1,
                             context_end_token_idx |-> -1,
                             context_word_keys |-> <<>>])
        custom_segment_id == SegmentId(start_word, end_word)
    IN  IF scan.context_start_token_idx = -1 \/ scan.context_end_token_idx = -1
        THEN [status |-> "context_token_error"]
        ELSE [status |-> "prepared",
              context_start_token_idx |-> scan.context_start_token_idx,
              context_end_token_idx |-> scan.context_end_token_idx,
              context_text |-> Strip(JoinTokens(toks, scan.context_start_token_idx,
                                                scan.context_end_token_idx)),
              combined_data |->
                 [wordData    |-> [k \in Range(scan.context_word_keys) |->
                                      GetOr(st.db, k, EmptyDict)],
                  segmentData |-> [id \in {custom_segment_id} |->
                                      [id |-> custom_segment_id,
                                       startWordKey |-> start_word,
                                       endWordKey |-> end_word,
                                       translations |-> EmptyDict]],
                  idioms      |-> <<>>]]

InitRange ==
    /\ text \in LongTexts
    /\ target_word_count = 2
    /\ backward_range = DEFAULT_BACKWARD_SEARCH_RANGE
    /\ forward_range = DEFAULT_FORWARD_SEARCH_RANGE
    /\ all_tokens = <<>>
    /\ global_word_counter = 0
    /\ split_points = <<>>
    /\ boundaries = <<>>
    /\ spc = "range_input"
    /\ doc = NoDoc
    /\ IdleRest

RangeFrame ==
    UNCHANGED <<text, target_word_count, backward_range, forward_range,
                split_points, boundaries, doc, mode, mpc, concurrency, args,
                global_known_words, tpc, validation_attempt, attempt,
                validated_data, tstatus, sem, lock_holders, faults, called,
                processed_at_start, saved>>

\* Lines 992-994 and 1066-1072: the data of the document and a range that
\* passes the test of line 1071
RangeStart(start_word, end_word) ==
    /\ spc = "range_input"
    /\ LET r == tokenize_and_ensure_word_entries(text, <<>>)
       IN  /\ all_tokens' = r.tokens
           /\ global_word_counter' = r.words
           /\ global_database' = r.db
           /\ ~(start_word <= 0 \/ end_word < start_word \/ end_word > r.words)
    /\ reprocess_range' = <<start_word, end_word>>
    /\ spc' = "range_start"
    /\ UNCHANGED <<global_segment_database, global_idiom_database, tlocal, op>>
    /\ RangeFrame

\* Lines 714-767
RangePrepare ==
    /\ spc = "range_start"
    /\ LET req == RangeRequest(DataState, all_tokens, global_word_counter,
                               reprocess_range[1], reprocess_range[2])
       IN  /\ op' = [kind |-> "request", n |-> 0, request |-> req]
           /\ tlocal' = IF req.status = "prepared"
                        THEN [b \in {ReprocessTask} |-> TaskLocals(req.combined_data)]
                        ELSE tlocal
           /\ spc' = IF req.status = "prepared" THEN "range_prepared" ELSE "range_done"
    /\ UNCHANGED <<all_tokens, global_word_counter, reprocess_range, dataVars>>
    /\ RangeFrame

\* Lines 786-879: an answer is validated and, if accepted, integrated
RangeReceive(response_text) ==
    /\ spc = "range_prepared"
    /\ LET validated_data_r == validate_llm_response(response_text)
       IN  IF Truthy(validated_data_r)
           THEN SetData(reprocess_integrate(DataState, reprocess_range[1],
                                            reprocess_range[2], validated_data_r))
           ELSE UNCHANGED <<global_database, global_segment_database,
                            global_idiom_database>>
    /\ op' = [op EXCEPT !.kind = "answer", !.n = 1]
    /\ spc' = "range_done"
    /\ UNCHANGED <<all_tokens, global_word_counter, reprocess_range, tlocal>>
    /\ RangeFrame

NextRange ==
    \/ \E start_word \in 0..MaxRangeWords, end_word \in 1..(MaxRangeWords + 1) :
          RangeStart(start_word, end_word)
    \/ RangePrepare
    \/ /\ spc = "range_prepared"
       /\ \E response_text \in RangeTexts(all_tokens, global_word_counter,
                                           reprocess_range[1], reprocess_range[2]) :
             RangeReceive(response_text)

SpecRange == InitRange /\ [][NextRange]_vars

-----------------------------------------------------------------------------
(* calculate_batch_boundaries on any strictly increasing list of split     *)
(* points                                                                  *)

MaxBoundsLen == 4

\* The strictly increasing list of the elements of a set of integers
RECURSIVE IncreasingList(_)
IncreasingList(S) ==
    IF S = {} THEN <<>>
    ELSE LET m == CHOOSE x \in S : \A y \in S : x >= y
         IN  Append(IncreasingList(S \ {m}), m)

InitBounds ==
    /\ text \in SeqsUpTo(Alphabet, MaxBoundsLen)
    /\ target_word_count = 0
    /\ backward_range = 0
    /\ forward_range = 0
    /\ all_tokens = <<>>
    /\ global_word_counter = 0
    /\ split_points = <<>>
    /\ boundaries = <<>>
    /\ spc = "bounds_input"
    /\ doc = NoDoc
    /\ IdleRest

\* tokenize_text_only(text)
BoundsTokenize ==
    /\ spc = "bounds_input"
    /\ LET r == tokenize_text_only(text)
       IN  /\ all_tokens' = r.tokens
           /\ global_word_counter' = r.words
    /\ spc' = "bounds_tokenized"
    /\ UNCHANGED <<text, target_word_count, backward_range, forward_range,
                   split_points, boundaries, dataVars, taskVars, runVars>>

\* calculate_batch_boundaries(split_points) for a strictly increasing list
\* of token indices
BoundsCalculate(S) ==
    /\ spc = "bounds_tokenized"
    /\ S # {}
    /\ split_points' = IncreasingList(S)
    /\ boundaries' = calculate_batch_boundaries(all_tokens, split_points')
    /\ spc' = "bounds_done"
    /\ UNCHANGED <<text, all_tokens, global_word_counter, target_word_count,
                   backward_range, forward_range, dataVars, taskVars, runVars>>

NextBounds ==
    \/ BoundsTokenize
    \/ \E S \in SUBSET (0..(Len(all_tokens) - 1)) : BoundsCalculate(S)

SpecBounds == InitBounds /\ [][NextBounds]_vars

-----------------------------------------------------------------------------
(* Properties of the tokenizer, find_split_points and                       *)
(* calculate_batch_boundaries, checked under SpecSplit                      *)

StrictlyIncreasing(sp) == \A k \in 1..(Len(sp) - 1) : sp[k] < sp[k + 1]

IsInterval(S) == S = {} \/ \E lo \in S, hi \in S : S = lo..hi

WordKeysOf(k) == boundaries[k].wordKeys

\* C1: find_split_points returns strictly increasing token indices, and the
\* wordKeys sets of calculate_batch_boundaries are pairwise disjoint, each a
\* contiguous interval, in batch order, and together exactly 1..N.
C1_SplitPartition ==
    /\ spc \in {"split", "bounded"} => StrictlyIncreasing(split_points)
    /\ spc = "bounded" =>
        /\ \A j, k \in 1..Len(boundaries) :
              j < k => /\ WordKeysOf(j) \cap WordKeysOf(k) = {}
                       /\ \A a \in WordKeysOf(j), b \in WordKeysOf(k) : a < b
        /\ \A k \in 1..Len(boundaries) : IsInterval(WordKeysOf(k))
        /\ UNION {WordKeysOf(k) : k \in 1..Len(boundaries)} = 1..global_word_counter

\* C1 witness: three batches, each owning words, after a split that ended on
\* a word token.
C1_Witness ==
    /\ spc = "bounded"
    /\ Len(boundaries) >= 3
    /\ \A k \in 1..Len(boundaries) : WordKeysOf(k) # {}
    /\ \E k \in 1..Len(split_points) : Tok(all_tokens, split_points[k]).type = "word"
    /\ \E k \in 1..Len(split_points) : Tok(all_tokens, split_points[k]).type = "punctuation"

\* C2: with at least one word, the last split point is the last token index
\* (so the batch token ranges cover every token), for every target batch
\* size including 0 and every search range.
C2_LastSplitIsLastToken ==
    (spc \in {"split", "bounded"} /\ global_word_counter >= 1) =>
        /\ Len(split_points) >= 1
        /\ split_points[Len(split_points)] = Len(all_tokens) - 1

\* C10: the token texts, concatenated in order, give back the input text;
\* no token is empty.
C10_TokensRoundTrip ==
    spc # "input" =>
        /\ Concat([k \in 1..Len(all_tokens) |-> all_tokens[k].text]) = text
        /\ \A k \in 1..Len(all_tokens) : all_tokens[k].text # <<>>

\* C10 witness: a text of words, blanks and punctuation has been tokenized.
C10_Witness ==
    /\ spc = "tokenized"
    /\ Len(text) = MaxLen
    /\ \E k \in 1..Len(all_tokens) : all_tokens[k].type = "word" /\ Len(all_tokens[k].text) >= 2
    /\ \E k \in 1..Len(all_tokens) : all_tokens[k].type = "whitespace"
    /\ \E k \in 1..Len(all_tokens) : all_tokens[k].text = <<".">>

\* A character of a word-like run: a letter or an apostrophe
IsWordChar(c) == c \in Letters \cup Apostrophes

\* The number of maximal runs of letter/apostrophe characters of a text
WordRuns(t) ==
    Cardinality({i \in 1..Len(t) : IsWordChar(t[i]) /\ (i = 1 \/ ~IsWordChar(t[i - 1]))})

WordTokenIndices(toks) == {i \in 1..Len(toks) : toks[i].type = "word"}

\* C11: for a text with N maximal runs of letter/apostrophe characters the
\* word tokens carry wordPos 1..N in document order without gap or repeat,
\* the other tokens carry no wordPos, global_word_counter is N, and
\* tokenize_and_ensure_word_entries gives the same token list and the same
\* count as tokenize_text_only.
C11_WordPositions ==
    spc # "input" =>
        LET W == WordTokenIndices(all_tokens)
            r == tokenize_and_ensure_word_entries(text, <<>>)
        IN  /\ Cardinality(W) = WordRuns(text)
            /\ \A i \in W : all_tokens[i].wordPos = Cardinality({k \in W : k <= i})
            /\ \A i \in (1..Len(all_tokens)) \ W : all_tokens[i].wordPos = NoWordPos
            /\ global_word_counter = WordRuns(text)
            /\ r.tokens = all_tokens
            /\ r.words = global_word_counter
            /\ DOMAIN r.db = 1..global_word_counter

\* C11 witness: a tokenized text with two words, one of them holding an
\* apostrophe, and punctuation between them.
C11_Witness ==
    /\ spc = "tokenized"
    /\ global_word_counter = 2
    /\ \E i \in 1..Len(text) : text[i] \in Apostrophes
    /\ \E i \in 1..Len(all_tokens) : all_tokens[i].type = "punctuation"

\* Lines 254-268: the token window <<min_token_idx, target_token_idx,
\* max_token_idx>> of the search that starts with current_word_count words
\* consumed and the last split at last_split_idx.
SearchWindow(toks, total_words, current_word_count, last_split_idx, twc, br, fr) ==
    LET target_pos == current_word_count + twc
        min_pos    == Max2(current_word_count + 1, target_pos - br)
        max_pos    == Min2(total_words, target_pos + fr)
        w          == ScanWindow(toks, last_split_idx + 1, min_pos, target_pos,
                                 max_pos, -1, -1, -1)
        mn         == IF w[1] = -1 THEN last_split_idx + 1 ELSE w[1]
        mx         == IF w[3] = -1 THEN Len(toks) - 1 ELSE w[3]
        tg         == IF w[2] = -1 THEN mx ELSE w[2]
    IN  <<mn, tg, mx>>

\* The kinds of boundary in the stated order of preference: 1 a newline
\* break, 2 sentence-ending punctuation, 3 a comma, 4 other punctuation;
\* 0: not a boundary.
BoundaryKind(token) ==
    IF token.type = "newline" THEN 1
    ELSE IF token.type # "punctuation" THEN 0
    ELSE IF token.text \in {<<".">>, <<"!">>, <<"?">>, <<":">>, <<";">>} THEN 2
    ELSE IF token.text = <<",">> THEN 3
    ELSE 4

\* C16: when the window of the first search of find_split_points holds
\* boundaries of different kinds, the first split is a boundary of the most
\* preferred kind present (newline break, then . ! ? : ;, then comma, then
\* other punctuation); and "Hello, world! Hello again." with batch size 2
\* and the ranges 5 and 15 is split at the "!" token and at the last token.
C16_SplitPreference ==
    spc \in {"split", "bounded"} =>
        /\ target_word_count < global_word_counter =>
              LET w     == SearchWindow(all_tokens, global_word_counter, 0, -1,
                                        target_word_count, backward_range,
                                        forward_range)
                  cands == {i \in w[1]..w[3] :
                               BoundaryKind(Tok(all_tokens, i)) # 0}
              IN  cands # {} =>
                     /\ split_points[1] \in cands
                     /\ \A i \in cands :
                           BoundaryKind(Tok(all_tokens, split_points[1]))
                              <= BoundaryKind(Tok(all_tokens, i))
        /\ text = HelloText => split_points = <<4, 9>>

\* |idx - target_token_idx|
OffsetFrom(tg, idx) == IF idx >= tg THEN idx - tg ELSE tg - idx

\* C27: when the first search of find_split_points chooses a candidate of
\* its window, no candidate of the same kind (the same score) in the
\* window is nearer to the target token; at equal distance the chosen one
\* is the forward candidate.
C27_NearestOfKind ==
    (spc \in {"split", "bounded"} /\ target_word_count < global_word_counter) =>
        LET w == SearchWindow(all_tokens, global_word_counter, 0, -1,
                              target_word_count, backward_range, forward_range)
            s == split_points[1]
        IN  (s \in w[1]..w[3] /\ Score(Tok(all_tokens, s)) # -1) =>
               \A i \in w[1]..w[3] :
                  Score(Tok(all_tokens, i)) = Score(Tok(all_tokens, s)) =>
                     \/ OffsetFrom(w[2], s) < OffsetFrom(w[2], i)
                     \/ OffsetFrom(w[2], s) = OffsetFrom(w[2], i) /\ s >= i

\* C36: for a batch size T >= 1 and search ranges b, f >= 0, every batch of
\* find_split_points followed by calculate_batch_boundaries holds at least
\* one word, every batch but the last holds between max(1, T - b) and
\* T + f words, and the last batch holds at most T words.
C36_BatchSizes ==
    (spc = "bounded" /\ target_word_count >= 1) =>
        \A k \in DOMAIN boundaries :
           LET size == Cardinality(boundaries[k].wordKeys)
           IN  /\ size >= 1
               /\ k < Len(boundaries) =>
                     /\ size >= Max2(1, target_word_count - backward_range)
                     /\ size <= target_word_count + forward_range
               /\ k = Len(boundaries) => size <= target_word_count

\* a first batch of T - b words and a last batch of T words
C36_Witness ==
    /\ spc = "bounded"
    /\ target_word_count = 2
    /\ backward_range = 1
    /\ Len(boundaries) = 2
    /\ Cardinality(boundaries[1].wordKeys) = 1
    /\ Cardinality(boundaries[2].wordKeys) = 2

\* C26: find_split_points terminates on every token list, batch size and
\* search range: the split indices it appends are token indices in
\* strictly increasing order, and the loop body is entered at most
\* 2 * len(all_tokens) + 1 times.
C26_SplitTerminates ==
    spc \in {"split", "bounded"} =>
        /\ \A k \in 1..Len(split_points) :
              /\ split_points[k] \in 0..(Len(all_tokens) - 1)
              /\ k > 1 => split_points[k - 1] < split_points[k]
        /\ global_word_counter > 0 =>
              LET st == SplitLoop(all_tokens, global_word_counter, target_word_count,
                                  backward_range, forward_range,
                                  [split_points |-> <<>>, current_word_count |-> 0,
                                   last_split_idx |-> -1, loop_guard |-> 0])
              IN  /\ st.split_points = split_points
                  /\ st.loop_guard <= 2 * Len(all_tokens) + 1
                  /\ Len(split_points) <= st.loop_guard

\* the loop has appended three split indices, with a batch size of 0
C26_Witness ==
    /\ spc = "split"
    /\ target_word_count = 0
    /\ Len(split_points) = 3

\* C28: the tokenizer types a run of newline characters 'newline' and
\* other whitespace 'whitespace': a text that contains a newline yields a
\* token of type 'newline', and no 'whitespace' token contains a newline.
C28_NewlineTokens ==
    spc # "input" =>
        /\ (\E i \in 1..Len(text) : text[i] = "\n") =>
              \E k \in 1..Len(all_tokens) : all_tokens[k].type = "newline"
        /\ \A k \in 1..Len(all_tokens) :
              all_tokens[k].type = "whitespace" =>
                 \A i \in 1..Len(all_tokens[k].text) : all_tokens[k].text[i] # "\n"

-----------------------------------------------------------------------------
(* Properties of a run, checked under Spec *)

BatchRun == mode \in {"fresh", "resume_batches"}

\* C3: the 'word' field of every WordDatabase entry equals the text of the
\* word token at its position, in every state of every run: after batch
\* integrations, range reprocesses, clears and statistics recalculations,
\* whatever word the service echoes.
C3_WordIsTokenText ==
    \A p \in DOMAIN global_database :
        /\ p \in 1..global_word_counter
        /\ "word" \in DOMAIN global_database[p]
        /\ global_database[p].word = WordTextAt(all_tokens, p)

\* A run has saved after a task integrated a response whose echoed word
\* differs from the word on file.
C3_Witness ==
    /\ mpc = "done"
    /\ \E b \in DOMAIN tpc : \E p \in DOMAIN validated_data[b].wordData :
          /\ tstatus[b] = "success"
          /\ p \in DOMAIN global_database
          /\ global_database[p].best_translation = TranslationOf(b)
          /\ validated_data[b].wordData[p].word # global_database[p].word

\* C4: in a fresh or resume run, a batch that is_batch_processed reports as
\* processed at the start of the run is never given a task and no request
\* is sent to the service for it.
C4_ProcessedBatchNeverDispatched ==
    BatchRun => \A b \in processed_at_start : b \notin DOMAIN tpc /\ b \notin called

\* A resume run has ended in which one batch was skipped as processed and
\* another was sent to the service and integrated.
C4_Witness ==
    /\ mode = "resume_batches"
    /\ mpc = "done"
    /\ processed_at_start # {}
    /\ \E b \in called : tstatus[b] = "success"

\* Every owned position has an entry whose part of speech, lemma and best
\* translation differ from "TBD".
FullyAnnotated(db, keys) ==
    \A p \in keys : /\ p \in DOMAIN db
                    /\ Get(db[p], "pos") # "TBD"
                    /\ Get(db[p], "lemma") # "TBD"
                    /\ Get(db[p], "best_translation") # "TBD"

\* C5: on the database and the batches of a run, is_batch_processed and
\* is_batch_already_processed both report a batch as processed exactly when
\* it is fully annotated (part of speech, lemma and best translation), and
\* so agree.
C5_SkipChecksAgree ==
    \A idx \in DOMAIN boundaries :
        /\ is_batch_processed(global_database, boundaries[idx].wordKeys)
              = FullyAnnotated(global_database, boundaries[idx].wordKeys)
        /\ is_batch_already_processed(global_database, boundaries[idx].wordKeys)
              = FullyAnnotated(global_database, boundaries[idx].wordKeys)

\* The validated responses the service can give to the request of batch idx
BatchResponses(idx) ==
    Responses(all_tokens, global_word_counter, idx, boundaries[idx].wordKeys,
              boundaries[idx].segmentId, boundaries[idx].batchStartWordKey,
              boundaries[idx].batchEndWordKey)
    \cup OtherResponses(all_tokens, global_word_counter, idx, boundaries[idx].wordKeys,
              boundaries[idx].segmentId, boundaries[idx].batchStartWordKey,
              boundaries[idx].batchEndWordKey)
    \cup {EmptyResponse}

\* C6: from the state of a run, integrating the validated responses of two
\* different batches in either order gives the same WordDatabase.
C6_IntegrationCommutes ==
    \A b1 \in DOMAIN boundaries, b2 \in DOMAIN boundaries :
        b1 # b2 =>
            \A r1 \in BatchResponses(b1), r2 \in BatchResponses(b2) :
                integrate_llm_data(integrate_llm_data(DataState, r1), r2).db
                  = integrate_llm_data(integrate_llm_data(DataState, r2), r1).db

\* The tasks between sending a request to the service and receiving its
\* outcome, the tasks sleeping in the transport backoff included
InFlight == {b \in DOMAIN tpc : tpc[b] \in {"calling", "sleep_api"}}

\* C7: in every state of a run, at most `concurrency` tasks are between
\* sending a request and receiving its outcome, tasks sleeping in the
\* transport backoff included, and every permit that is not free is held by
\* such a task: each exit of call_llm_api_async has given its permit back.
C7_InFlightWithinLimit ==
    /\ Cardinality(InFlight) <= concurrency
    /\ sem >= 0
    /\ mpc \in {"gather", "done", "crashed"} => sem + Cardinality(InFlight) = concurrency

\* One permit, three tasks: one has left call_llm_api_async by a raised
\* error, one sleeps in the transport backoff with the permit, one waits.
C7_Witness ==
    /\ concurrency = 1
    /\ \E b1 \in DOMAIN tpc, b2 \in DOMAIN tpc, b3 \in DOMAIN tpc :
          /\ tstatus[b1] = "API_error"
          /\ tpc[b2] = "sleep_api"
          /\ tpc[b3] = "acquire"
          /\ validation_attempt[b3] > 0

WriteStep ==
    \/ global_database' # global_database
    \/ global_segment_database' # global_segment_database
    \/ global_idiom_database' # global_idiom_database

\* C8: while the tasks of a run are running, every step that changes the
\* WordDatabase, the segment list or the idiom list is taken by a task that
\* holds the integration lock; at most one task holds the lock; and a task
\* that holds the lock is at its integration, not at a service call or a
\* sleep.
C8_WritesUnderLock ==
    /\ [](Cardinality(lock_holders) <= 1)
    /\ [](\A b \in lock_holders : tpc[b] = "locked")
    /\ [][(mpc = "gather" /\ mpc' = "gather" /\ WriteStep)
            => \E b \in lock_holders : tpc[b] = "locked" /\ tpc'[b] = "done"]_vars

\* A task holds the lock while another has its validated response and
\* waits for the lock, and a third has written its results.
C8_Witness ==
    \E b1 \in DOMAIN tpc, b2 \in DOMAIN tpc, b3 \in DOMAIN tpc :
        /\ lock_holders = {b1}
        /\ tpc[b2] = "validated"
        /\ tstatus[b3] = "success"
        /\ global_database[SetMin(boundaries[b3].wordKeys)].best_translation = TranslationOf(b3)

\* The results of batch b are in the saved document
ResultsSaved(b) ==
    \A p \in DOMAIN validated_data[b].wordData :
        p \in boundaries[b].wordKeys =>
            /\ StrOfInt(p) \in DOMAIN doc.wordDatabase
            /\ doc.wordDatabase[StrOfInt(p)].best_translation
                  = validated_data[b].wordData[p].best_translation

\* C9: a fresh or resume run whose tasks all have their outcome and that has
\* left the gather has written the final save, and the saved document holds
\* the results of every batch that ended with success.
C9_RunReachesFinalSave ==
    (BatchRun /\ mpc \in {"done", "crashed"}) =>
        /\ saved
        /\ \A b \in DOMAIN tpc : tstatus[b] = "success" => ResultsSaved(b)

-----------------------------------------------------------------------------
(* Properties of the data operations, checked under SpecData *)

\* The step is a call of the kind k
OpStep(k) == op'.kind = k /\ op'.n = op.n + 1

\* C12: reprocess_word_range leaves every WordDatabase entry at a position
\* outside [start, end] unchanged, whatever the validated response holds,
\* the positions of the widened context window included.
C12_ReprocessOutsideRangeUnchanged ==
    [][OpStep("range") =>
         \A p \in DOMAIN global_database :
            (p < op'.lo \/ p > op'.hi) =>
               p \in DOMAIN global_database' /\ global_database'[p] = global_database[p]]_vars

\* C12 witness: the range 2..2 of a three-word document was reprocessed
\* with an answer about every word of the context window 1..3; word 2 has
\* the translation of the answer, word 1 has not.
C12_Witness ==
    /\ op.kind = "range"
    /\ op.lo = 2 /\ op.hi = 2
    /\ Truthy(validate_llm_response(op.response_text))
    /\ DOMAIN op.response_text.parsed.wordData = 1..3
    /\ global_database[2].best_translation = TranslationOf(ReprocessTask)
    /\ global_database[1].best_translation # TranslationOf(ReprocessTask)

\* The annotation of an entry is reset and its word kept
ClearedFrom(before, after) ==
    /\ after.pos = "TBD"
    /\ after.lemma = "TBD"
    /\ after.best_translation = "TBD"
    /\ after.most_frequent_lemma = "TBD"
    /\ after.possible_translations = <<>>
    /\ after.details = <<>>
    /\ after.lemma_translations = <<>>
    /\ after.word = before.word

\* The fields of an entry that a statistics pass has no part in
SameAnnotation(before, after) ==
    /\ after.word = before.word
    /\ after.pos = before.pos
    /\ after.lemma = before.lemma
    /\ after.best_translation = before.best_translation
    /\ after.details = before.details

\* C13: clear_data on a set of word positions resets pos, lemma,
\* best_translation and most_frequent_lemma of those entries to "TBD",
\* empties their possible_translations, details and lemma_translations,
\* keeps their word and changes no field of any other entry; the statistics
\* pass that follows a clear leaves word, pos, lemma, best_translation and
\* details of the other entries as they were.
C13_ClearResetsOnlyTargets ==
    [][/\ OpStep("clear") =>
            /\ DOMAIN global_database' = DOMAIN global_database
            /\ \A p \in DOMAIN global_database :
                  IF p \in op'.keys
                  THEN ClearedFrom(global_database[p], global_database'[p])
                  ELSE global_database'[p] = global_database[p]
       /\ (OpStep("stats") /\ op.kind = "clear") =>
            \A p \in DOMAIN global_database \ op.keys :
               SameAnnotation(global_database[p], global_database'[p])]_vars

\* C13 witness: word 1 of a document was cleared after it and another word
\* had been annotated; word 1 is reset and keeps its word and its
\* frequency, the other word keeps its annotation.
C13_Witness ==
    /\ op.kind = "clear"
    /\ op.keys = {1}
    /\ global_database[1].pos = "TBD"
    /\ global_database[1].word = <<"A">>
    /\ global_database[1].freq # "TBD"
    /\ \E p \in DOMAIN global_database : global_database[p].pos = "NOUN"

\* C14: update_python_stats is idempotent: on every database the pass does
\* not raise on, a second pass changes no field of any entry.
C14_StatsIdempotent ==
    (op.kind # "none" /\ ~StatsRaises(global_database)) =>
        LET once == update_python_stats(global_database)
        IN  update_python_stats(once) = once

\* C14 witness: a statistics pass ran on a database in which two positions
\* share a group and hold translations.
C14_Witness ==
    /\ op.kind = "stats"
    /\ \E p \in DOMAIN global_database :
          /\ global_database[p].freq = Num(2)
          /\ global_database[p].possible_translations # <<>>

\* The refined group of position p: the entries with the same lowercased
\* word, most_frequent_lemma and pos
GroupOf(db, p) ==
    {q \in DOMAIN db : /\ Lower(db[q].word) = Lower(db[p].word)
                       /\ db[q].most_frequent_lemma = db[p].most_frequent_lemma
                       /\ db[q].pos = db[p].pos}

\* C15: after update_python_stats, within each refined group (lowercased
\* word, most_frequent_lemma, pos) every member's freq is the number of
\* members, freq_till_now counts 1, 2, ..., freq in increasing word position,
\* and first_inst is true exactly for the member with the smallest position.
C15_GroupStatistics ==
    op.kind \in {"stats", "initialize"} =>
        \A p \in DOMAIN global_database :
           LET group == GroupOf(global_database, p)
           IN  /\ global_database[p].freq = Num(Cardinality(group))
               /\ global_database[p].freq_till_now = Num(Cardinality({q \in group : q <= p}))
               /\ global_database[p].first_inst = Bool(\A q \in group : p <= q)

\* the 'id' fields of the segment list, in list order
SegmentIdsOf(segs) == [i \in 1..Len(segs) |-> Get(segs[i], "id")]

\* C17: after any sequence of batch integrations and range reprocesses with
\* validated responses (a segmentData entry may carry an 'id' that differs
\* from its key), no two segments of the segment list have the same id.
C17_SegmentIdsDistinct ==
    LET ids == SegmentIdsOf(global_segment_database)
    IN  \A i, j \in DOMAIN ids : ids[i] = ids[j] => i = j

\* C18: the keys of the WordDatabase are exactly 1..N after initialization
\* and after every later batch integration, range reprocess, clear,
\* statistics pass, save and load: a position of a response that has no
\* entry is not inserted and no entry is removed.
C18_KeysAreWordPositions ==
    op.kind # "none" => DOMAIN global_database = 1..global_word_counter

\* a validated response with an item at position N + 1 has been integrated
\* by a batch or a range reprocess, as the last of MaxOps operations
C18_Witness ==
    /\ op.kind \in {"batch", "range"}
    /\ op.n = MaxOps
    /\ Truthy(validate_llm_response(op.response_text))
    /\ global_word_counter + 1 \in DOMAIN op.response_text.parsed.wordData
    /\ global_word_counter = 3

\* The stated acceptance condition: the text parses as a JSON object with
\* the keys wordData, segmentData and idioms, the first two objects and the
\* third an array
WellFormed(response_text) ==
    /\ ~response_text.empty
    /\ response_text.parses
    /\ response_text.top = "dict"
    /\ {"wordData", "segmentData", "idioms"} \subseteq response_text.keys
    /\ response_text.types["wordData"] = "dict"
    /\ response_text.types["segmentData"] = "dict"
    /\ response_text.types["idioms"] = "list"

\* C19: validate_llm_response returns the parsed object exactly for the
\* well-formed response texts and fails on every other text (empty,
\* unparsable, not an object, a key missing, a container of the wrong type);
\* a step that receives a text that is not well-formed integrates nothing.
C19_OnlyWellFormedIntegrated ==
    [][(OpStep("batch") \/ OpStep("range")) =>
          LET response_text == op'.response_text
              validated     == validate_llm_response(response_text)
          IN  /\ WellFormed(response_text) =>
                    Truthy(validated) /\ validated = response_text.parsed
              /\ ~WellFormed(response_text) =>
                    /\ ~Truthy(validated)
                    /\ UNCHANGED <<global_database, global_segment_database,
                                   global_idiom_database>>]_vars

\* after an integration, a response whose 'idioms' is an object has been
\* received and rejected
C19_Witness ==
    /\ op.kind = "batch"
    /\ op.n >= 2
    /\ ~WellFormed(op.response_text)
    /\ op.response_text.top = "dict"
    /\ op.response_text.types["idioms"] = "dict"
    /\ global_segment_database # <<>>
    /\ global_idiom_database # <<>>

-----------------------------------------------------------------------------
(* Properties of the modes of a run, checked under Spec *)

\* C21: a check-status run calls no service, runs no statistics pass,
\* writes no document and leaves the WordDatabase, the segments and the
\* idioms as load_progress gave them; the batches it reports as processed
\* are those for which is_batch_processed holds on the loaded state; and it
\* takes no further step.
C21_CheckStatusReadsOnly ==
    [][mode = "check_status" =>
          /\ mpc # "idle" => UNCHANGED vars
          /\ mpc = "idle" =>
                /\ mpc' = "exited"
                /\ called' = {} /\ DOMAIN tpc' = {}
                /\ doc' = doc /\ saved' = FALSE
                /\ global_database' = LoadDatabase(doc)
                /\ global_segment_database' = doc.segments
                /\ global_idiom_database' = doc.idioms
                /\ global_word_counter' > 0 =>
                      processed_at_start' =
                         {idx \in DOMAIN boundaries' :
                             is_batch_processed(LoadDatabase(doc),
                                                boundaries'[idx].wordKeys)}]_vars

\* a check-status run has reported one batch as processed and another as
\* unprocessed, on a document whose first word is annotated without a lemma
C21_Witness ==
    /\ mode = "check_status"
    /\ mpc = "exited"
    /\ processed_at_start = {1}
    /\ Len(boundaries) >= 2
    /\ Get(global_database[1], "lemma") = "TBD"


\* The batches a run with batch size twc computes on the text of document d
\* (lines 1002-1008)
BoundariesOfDoc(d, twc) ==
    LET tk == tokenize_text_only(d.inputText)
    IN  calculate_batch_boundaries(tk.tokens,
            find_split_points(tk.tokens, tk.words, twc,
                DEFAULT_BACKWARD_SEARCH_RANGE, DEFAULT_FORWARD_SEARCH_RANGE))

\* C22: an initialize-only run calls no service and ends with the save; the
\* document it saves has an entry for every word position 1..N, each with
\* pos, lemma and best_translation "TBD", so that a following check-status
\* run, whatever its batch size, finds no processed batch.
C22_InitializeSavesPending ==
    mode = "initialize" =>
        /\ called = {} /\ DOMAIN tpc = {}
        /\ mpc \in {"idle", "gather", "done", "exited"}
        /\ mpc = "exited" => global_word_counter = 0
        /\ mpc = "done" =>
              /\ saved /\ LoadSucceeds(doc)
              /\ DOMAIN LoadDatabase(doc) = 1..global_word_counter
              /\ \A p \in DOMAIN LoadDatabase(doc) :
                    /\ LoadDatabase(doc)[p].pos = "TBD"
                    /\ LoadDatabase(doc)[p].lemma = "TBD"
                    /\ LoadDatabase(doc)[p].best_translation = "TBD"
              /\ \A twc \in BatchSizes :
                    /\ BoundariesOfDoc(doc, twc) # <<>>
                    /\ ProcessedBatches(LoadDatabase(doc), BoundariesOfDoc(doc, twc)) = {}

\* an initialize-only run on the text of three words has saved
C22_Witness ==
    /\ mode = "initialize"
    /\ mpc = "done"
    /\ saved
    /\ global_word_counter = 3
    /\ DOMAIN doc.wordDatabase = {"1", "2", "3"}


-----------------------------------------------------------------------------
(* More properties of the data operations, checked under SpecData *)

\* C23: integrating the validated response of batch b changes no
\* WordDatabase entry at a position outside the wordKeys of b, whatever
\* positions the response holds.
C23_IntegrationStaysInBatch ==
    [][OpStep("batch") =>
          \A p \in DOMAIN global_database :
             p \notin boundaries[op'.batch].wordKeys =>
                global_database'[p] = global_database[p]]_vars


\* C29: after any sequence of batch integrations and range reprocesses
\* with validated responses, no two records of the idiom list have the
\* same id.
C29_IdiomIdsDistinct ==
    spc = "data" =>
        \A i, j \in 1..Len(global_idiom_database) :
           global_idiom_database[i].id = global_idiom_database[j].id => i = j

\* C30: a reprocess of start..end whose response is validated leaves the
\* idiom list equal to the previous idioms that are not fully inside
\* start..end, unchanged and in their order, followed by the idioms of the
\* response that have the four idiom keys and lie fully inside start..end.
C30_ReprocessReplacesIdioms ==
    [][(OpStep("range") /\ Truthy(validate_llm_response(op'.response_text))) =>
          LET start_word == op'.lo
              end_word   == op'.hi
              Within(idiom) == /\ GetOr(idiom, "startWordKey", -1) >= start_word
                               /\ GetOr(idiom, "endWordKey", -1) <= end_word
              Kept(idiom) == ~Within(idiom)
              Stored(idiom) == /\ IdiomKeys \subseteq DOMAIN idiom
                               /\ Within(idiom)
          IN  global_idiom_database' =
                 SelectSeq(global_idiom_database, Kept)
                    \o SelectSeq(validate_llm_response(op'.response_text).idioms, Stored)]_vars

\* a reprocess has kept an idiom of a batch, stored one idiom of a
\* response of three, and left out the two others
C30_Witness ==
    /\ spc = "data"
    /\ op.kind = "range"
    /\ Truthy(validate_llm_response(op.response_text))
    /\ LET response_idioms == validate_llm_response(op.response_text).idioms
       IN  /\ Len(response_idioms) = 3
           /\ Len(global_idiom_database) = 2
           /\ global_idiom_database[1] \notin Range(response_idioms)
           /\ global_idiom_database[2] = response_idioms[3]
           /\ response_idioms[1] \notin Range(global_idiom_database)

-----------------------------------------------------------------------------
(* Properties of the retry loops of a task, checked under Spec *)

\* The data a run starts with (lines 975 and 992-994)
RunStartState == IF NeedsDoc(mode) THEN LoadedState(doc) ELSE FreshState(text)

\* C24: in process_batch_parallel a text that fails the validation on one
\* of the first five attempts is followed by a sleep of 5 seconds and then
\* by a new call; the sixth failure in a row ends the task with the status
\* validation_failed, returning the input JSON the task built and the text
\* of the last response; such a task never integrates.
C24_ValidationRetries ==
    [][\A b \in 1..MaxBatches :
          /\ ServiceReturnsInvalid(b) =>
                IF validation_attempt[b] + 1 < 6
                THEN /\ tpc'[b] = "sleep_validation"
                     /\ tlocal'[b].delay = 5
                     /\ tstatus'[b] = "running"
                ELSE /\ tpc'[b] = "done"
                     /\ tstatus'[b] = "validation_failed"
                     /\ tlocal'[b].returned =
                           <<BatchCombinedData(RunStartState, boundaries[b]),
                             InvalidText(b, 6)>>
          /\ (Running(b) /\ tpc[b] = "sleep_validation" /\ tpc'[b] # "sleep_validation") =>
                /\ tpc'[b] = "acquire"
                /\ validation_attempt'[b] = validation_attempt[b] + 1
          /\ (Running(b) /\ tpc[b] = "acquire" /\ tpc'[b] # "acquire") =>
                tpc'[b] = "calling" /\ b \in called'
          /\ (Running(b) /\ tstatus[b] = "validation_failed") =>
                /\ tpc'[b] = "done" /\ tstatus'[b] = "validation_failed"
                /\ b \notin lock_holders']_vars

\* a run has ended with the save after one batch failed the validation six
\* times and another batch was integrated
C24_Witness ==
    /\ mpc = "done"
    /\ \E b \in DOMAIN tstatus :
          /\ b >= 1
          /\ tstatus[b] = "validation_failed"
          /\ tlocal[b].returned[2] = InvalidText(b, MAX_VALIDATION_RETRIES)
    /\ \E b \in DOMAIN tstatus : tstatus[b] = "success"
    /\ faults = MaxFaults


-----------------------------------------------------------------------------
(* Properties of clears, checked under SpecData *)

\* neither --up-to-batch nor --process-batches
Unrestricted == [up_to_batch |-> 0, process_batches |-> {}]

\* C32: a clear (of a batch, or of a word range) leaves every batch that
\* owns one of the cleared words unprocessed for is_batch_processed; the
\* statistics pass does not change which batches are unprocessed, nor does
\* a save followed by a load; and an unrestricted resume run on the loaded
\* document selects every unprocessed batch for a task.
C32_ClearedBatchIsPending ==
    [][/\ OpStep("clear") =>
             \A b \in DOMAIN boundaries :
                boundaries[b].wordKeys \cap op'.keys # {} =>
                   ~is_batch_processed(global_database', boundaries[b].wordKeys)
       /\ OpStep("stats") =>
             UnprocessedBatches(global_database', boundaries)
                = UnprocessedBatches(global_database, boundaries)
       /\ OpStep("save") =>
             /\ LoadSucceeds(doc')
             /\ UnprocessedBatches(LoadedState(doc').db, boundaries)
                   = UnprocessedBatches(global_database, boundaries)
       /\ OpStep("load") =>
             /\ UnprocessedBatches(global_database', boundaries')
                   = UnprocessedBatches(LoadedState(doc).db, boundaries')
             /\ BatchesToRun(UnprocessedBatches(global_database', boundaries'),
                             Unrestricted)
                   = {b \in DOMAIN boundaries' :
                         ~is_batch_processed(global_database', boundaries'[b].wordKeys)}
      ]_vars

\* one word of an annotated batch of two words has been cleared
C32_Witness ==
    /\ spc = "data"
    /\ op.kind = "clear"
    /\ \E b \in DOMAIN boundaries :
          /\ boundaries[b].wordKeys \cap op.keys # {}
          /\ \E k \in boundaries[b].wordKeys \ op.keys :
                ~EntryUnprocessed(global_database, k)
          /\ ~is_batch_processed(global_database, boundaries[b].wordKeys)

-----------------------------------------------------------------------------
(* Properties of the outcomes of a batch task, checked under Spec *)

\* C37: the step in which a batch task ends with validation_failed or
\* API_error changes nothing in the word database, the segment list and the
\* idiom list, and while the tasks run these change only in the step in
\* which one task ends with success; a blocked response is taken as the
\* empty valid response, and the task that got it ends with success,
\* again with nothing changed.
C37_FailedTaskChangesNothing ==
    [][/\ (mpc = "gather" /\ mpc' = "gather" /\ DataState' # DataState) =>
             \E c \in DOMAIN tpc :
                /\ tstatus[c] = "running" /\ tstatus'[c] = "success"
                /\ \A d \in DOMAIN tpc \ {c} : tstatus'[d] = tstatus[d]
       /\ \A b \in 1..MaxBatches :
          /\ (Running(b) /\ tstatus[b] = "running"
                /\ tstatus'[b] \in {"validation_failed", "API_error"}) =>
                 /\ DataState' = DataState
                 /\ tpc[b] = "calling"
          /\ ServiceBlocked(b) =>
                 /\ tpc'[b] = "validated"
                 /\ validated_data'[b] = EmptyResponse
                 /\ validate_llm_response(GoodText(EmptyResponse)) = EmptyResponse
                 /\ DataState' = DataState
          /\ (Running(b) /\ tpc[b] = "locked" /\ validated_data[b] = EmptyResponse
                /\ tpc'[b] # "locked") =>
                 /\ tstatus'[b] = "success"
                 /\ DataState' = DataState]_vars

\* one batch task has ended with API_error, another has ended with success
\* on a blocked response, and a third has had an answer integrated
C37_Witness ==
    /\ spc = "run"
    /\ mpc = "gather"
    /\ \E b \in DOMAIN tstatus \ {ReprocessTask} : tstatus[b] = "API_error"
    /\ \E b \in DOMAIN tstatus \ {ReprocessTask} :
          tstatus[b] = "success" /\ validated_data[b] = EmptyResponse
    /\ \E b \in DOMAIN tstatus \ {ReprocessTask} :
          tstatus[b] = "success" /\ validated_data[b] # EmptyResponse

-----------------------------------------------------------------------------
(* Properties of the batch filters, checked under Spec *)

\* C33: in a resume run with --up-to-batch c, for any integer c, no task is
\* created for a batch with an index greater than c; with --process-batches
\* S no task is created for a batch outside S; and in both cases tasks are
\* created only for batches that are unprocessed at the start.
C33_FiltersLimitTasks ==
    (spc = "run" /\ mode = "resume_batches" /\ mpc # "idle") =>
        /\ args.up_to_batch # 0 =>
              \A b \in DOMAIN tpc : b <= args.up_to_batch /\ b \notin processed_at_start
        /\ args.process_batches # {} =>
              \A b \in DOMAIN tpc : b \in args.process_batches /\ b \notin processed_at_start

\* C35: in every mode that writes the document, the statistics pass runs
\* after the last change of the word database and before the write: the
\* document on disk holds the database as the pass left it, nothing changes
\* the database afterwards, and the pass applied to the saved word
\* database gives the saved word database.
C35_StatsBeforeSave ==
    (spc = "run" /\ saved) =>
        /\ mode \in {"initialize", "fresh", "resume_batches", "reprocess_range",
                      "clear_batch", "clear_range"}
        /\ doc = SaveDoc(text, global_database, global_segment_database,
                         global_idiom_database, global_known_words)
        /\ ~StatsRaises(LoadDatabase(doc))
        /\ update_python_stats(LoadDatabase(doc)) = LoadDatabase(doc)
        /\ SaveDoc(text, update_python_stats(LoadDatabase(doc)), doc.segments,
                   doc.idioms, doc.knownWords) = doc

\* a run has integrated an answer and an answer of another task has been
\* rejected, and the document has been written
C35_Witness ==
    /\ spc = "run"
    /\ saved
    /\ mode = "resume_batches"
    /\ \E b \in DOMAIN tstatus : tstatus[b] = "success"
    /\ \E b \in DOMAIN tstatus : tstatus[b] # "success"

-----------------------------------------------------------------------------
(* Properties of reprocess_word_range, checked under SpecRange *)

\* C31: for a reprocess of start..end in a document of N words, the word
\* positions whose data and whose text are sent are exactly
\* max(1, start - 5)..min(N, end + 5) when end - start + 1 < 7 and exactly
\* start..end otherwise; the segment sent, and the segment stored from an
\* accepted answer, has the id of start..end with startWordKey = start and
\* endWordKey = end.
C31_ContextWindow ==
    spc \in {"range_prepared", "range_done"} =>
        LET start_word == reprocess_range[1]
            end_word   == reprocess_range[2]
            N          == global_word_counter
            expected   == IF end_word - start_word + 1 < 7
                          THEN Max2(1, start_word - 5)..Min2(N, end_word + 5)
                          ELSE start_word..end_word
            req        == op.request
            sent       == req.combined_data
        IN  /\ req.status = "prepared"
            /\ DOMAIN sent.wordData = expected
            /\ {Tok(all_tokens, i).wordPos :
                    i \in {j \in req.context_start_token_idx..req.context_end_token_idx :
                              Tok(all_tokens, j).type = "word"}} = expected
            /\ req.context_text =
                  JoinTokens(all_tokens, req.context_start_token_idx,
                             req.context_end_token_idx)
            /\ ContextKeys(start_word, end_word, N) = expected
            /\ tlocal[ReprocessTask].combined_json_str =
                  RangeCombinedData([db |-> sent.wordData], start_word, end_word, N)
            /\ DOMAIN sent.segmentData = {SegmentId(start_word, end_word)}
            /\ \A id \in DOMAIN sent.segmentData :
                  /\ sent.segmentData[id].id = SegmentId(start_word, end_word)
                  /\ sent.segmentData[id].startWordKey = start_word
                  /\ sent.segmentData[id].endWordKey = end_word
            /\ \A i \in 1..Len(global_segment_database) :
                  /\ global_segment_database[i].id = SegmentId(start_word, end_word)
                  /\ global_segment_database[i].startWordKey = start_word
                  /\ global_segment_database[i].endWordKey = end_word

\* a range of 7 words is sent as it is, in a document with words on both
\* sides, and its segment has been stored
C31_Witness ==
    /\ spc = "range_done"
    /\ global_word_counter = 13
    /\ reprocess_range = <<4, 10>>
    /\ DOMAIN op.request.combined_data.wordData = 4..10
    /\ Len(global_segment_database) = 1

-----------------------------------------------------------------------------
(* Properties of calculate_batch_boundaries, checked under SpecBounds *)

\* The largest word position in the batches before batch k, 0 if none
LastWordBefore(k) ==
    LET earlier == UNION {boundaries[j].wordKeys : j \in 1..(k - 1)}
    IN  IF earlier = {} THEN 0 ELSE SetMax(earlier)

\* C34: for any strictly increasing list of split points, a batch whose
\* token range holds no word token gets an empty wordKeys set,
\* batchStartWordKey = (the largest word position in the earlier batches)
\* + 1 and batchEndWordKey = batchStartWordKey - 1, and is_batch_processed
\* reports it as processed.
C34_EmptyBatch ==
    spc = "bounds_done" =>
        \A k \in DOMAIN boundaries :
           (\A i \in boundaries[k].startTokenIndex..boundaries[k].endTokenIndex :
               Tok(all_tokens, i).type # "word") =>
              /\ boundaries[k].wordKeys = {}
              /\ boundaries[k].batchStartWordKey = LastWordBefore(k) + 1
              /\ boundaries[k].batchEndWordKey = boundaries[k].batchStartWordKey - 1
              /\ is_batch_processed(global_database, boundaries[k].wordKeys)

(***************************************************************************)
(* Properties of the termination of the batch tasks, checked under         *)
(* SpecLive                                                                *)
(***************************************************************************)

ResumeTexts == { <<"A", ",", " ", "b", ".", " ", "a">>, <<"a", " ", "b">> }

\* A document to resume from: the placeholder entries of the initialize
\* mode (server/process_llm.py lines 203-210), the words of S analysed, and
\* a segment, an idiom and a known word or none.
ResumeDoc(t, S, with_rest) ==
    LET tk == tokenize_text_only(t)
        db == [p \in 1..tk.words |->
                 IF p \in S
                 THEN [PlaceholderEntry(WordTextAt(tk.tokens, p)) EXCEPT
                          !.pos = "NOUN", !.lemma = "l", !.best_translation = "t1"]
                 ELSE PlaceholderEntry(WordTextAt(tk.tokens, p))]
    IN  SaveDoc(t, db,
                IF with_rest THEN <<SegmentEntry(SegmentId(1, tk.words), 1, tk.words, 1)>> ELSE <<>>,
                IF with_rest THEN <<IdiomEntry(1, tk.words, 1)>> ELSE <<>>,
                IF with_rest THEN <<"a::NOUN">> ELSE <<>>)

ResumeDocs ==
    {ResumeDoc(t, S, r) : t \in ResumeTexts, S \in {{}, {1}, {1, 2}}, r \in BOOLEAN}

\* The keys of a word entry whose values are strings other than the word
StringKeys == {"pos", "lemma", "best_translation", "freq", "freq_till_now",
               "first_inst", "most_frequent_lemma"}

\* Line 353: any(value == "TBD" for value in word_data.values() if isinstance(value, str))
HasTBD(word_data) == \E k \in DOMAIN word_data \cap StringKeys : word_data[k] = "TBD"

\* Lines 374-376: the TBD fields of the entry that the answer names are filled in
FillTBD(word_data, ai_data) ==
    [k \in DOMAIN word_data |->
        IF k \in DOMAIN ai_data /\ k \in StringKeys /\ word_data[k] = "TBD"
        THEN ai_data[k] ELSE word_data[k]]

\* What a call of the service does for one word: a JSON object, an empty
\* text (line 369), or an exception (lines 384-386)
ResumeAnswers ==
    { [kind |-> "json", ai_data |-> [pos |-> "VERB", lemma |-> "m", best_translation |-> "t2"]],
      [kind |-> "json", ai_data |-> [pos |-> "VERB", note |-> "n"]],
      [kind |-> "empty", ai_data |-> EmptyDict],
      [kind |-> "raises", ai_data |-> EmptyDict] }

\* Lines 74-83: the module globals as the import leaves them
InitResume ==
    /\ doc \in ResumeDocs
    /\ text = doc.inputText
    /\ target_word_count = 0
    /\ backward_range = 0
    /\ forward_range = 0
    /\ all_tokens = <<>>
    /\ global_word_counter = 0
    /\ split_points = <<>>
    /\ boundaries = <<>>
    /\ spc = "resume_input"
    /\ IdleRest

ResumeFrame ==
    UNCHANGED <<text, all_tokens, global_word_counter, target_word_count, backward_range,
                forward_range, split_points, boundaries, dataVars, tpc,
                validation_attempt, attempt, validated_data, tstatus, sem, lock_holders,
                faults, called, mode, mpc, concurrency, args, reprocess_range,
                processed_at_start, op>>

\* Lines 317-356: the file is read and main's locals are assigned; the
\* words with a TBD value are listed in the order of the file
ResumeLoad ==
    /\ spc = "resume_input"
    /\ LET db == [p \in {IntOfStr(k) : k \in DOMAIN doc.wordDatabase} |->
                    doc.wordDatabase[StrOfInt(p)]]
       IN  tlocal' = [data                    |-> doc,
                      global_database         |-> db,
                      global_segment_database |-> doc.segments,
                      global_idiom_database   |-> doc.idioms,
                      global_known_words      |-> doc.knownWords,
                      words_with_tbd          |-> IncreasingList({p \in DOMAIN db : HasTBD(db[p])}),
                      processed_count         |-> 0]
    /\ spc' = "resume_loaded"
    /\ UNCHANGED <<doc, saved>>
    /\ ResumeFrame

\* Lines 358-386: one turn of the loop over words_with_tbd
ResumeWord(answer) ==
    /\ spc = "resume_loaded"
    /\ tlocal.words_with_tbd # <<>>
    /\ LET word_pos == Head(tlocal.words_with_tbd)
       IN  tlocal' = [tlocal EXCEPT
                        !.words_with_tbd = Tail(@),
                        !.global_database =
                            IF answer.kind = "json"
                            THEN [@ EXCEPT ![word_pos] = FillTBD(@, answer.ai_data)]
                            ELSE @,
                        !.processed_count = IF answer.kind = "json" THEN @ + 1 ELSE @]
    /\ UNCHANGED <<doc, saved, spc>>
    /\ ResumeFrame

\* ''.join(token['text'] for token in all_tokens)
TokensText(toks) == JoinTokens(toks, 0, Len(toks) - 1)

\* Line 389 and save_progress (lines 234-256): the module globals are written
ResumeSave ==
    /\ spc = "resume_loaded"
    /\ tlocal.words_with_tbd = <<>>
    /\ doc' = SaveDoc(TokensText(all_tokens), global_database, global_segment_database,
                      global_idiom_database, global_known_words)
    /\ saved' = TRUE
    /\ spc' = "resume_saved"
    /\ UNCHANGED tlocal
    /\ ResumeFrame

NextResume ==
    \/ ResumeLoad
    \/ \E answer \in ResumeAnswers : ResumeWord(answer)
    \/ ResumeSave

SpecResume == InitResume /\ [][NextResume]_vars

(***************************************************************************)
(* Properties of the resume mode of server/process_llm.py, checked under   *)
(* SpecResume                                                              *)
(***************************************************************************)

\* C39: the document written by save_progress in the resume mode has the
\* inputText, the segments, the idioms and the known words of the document
\* that was loaded, and its word entries with the fields the service filled
\* in during the run.
C39_ResumeSavesLoaded ==
    spc = "resume_saved" =>
        /\ doc.inputText = tlocal.data.inputText
        /\ doc.segments = tlocal.data.segments
        /\ doc.idioms = tlocal.data.idioms
        /\ doc.knownWords = tlocal.data.knownWords
        /\ DOMAIN doc.wordDatabase = DOMAIN tlocal.data.wordDatabase
        /\ \A k \in DOMAIN doc.wordDatabase \cap DOMAIN tlocal.data.wordDatabase :
              doc.wordDatabase[k] = tlocal.global_database[IntOfStr(k)]

(***************************************************************************)
(* server/ai-processor.py: one batch of process_text_parallel.  The text   *)
(* is shorter than the target of a batch, so find_split_points gives the   *)
(* last token as the only split point (lines 251-254) and the batch is the *)
(* whole text.  tlocal holds the locals of process_batch_with_llm.         *)
(***************************************************************************)

MaxAiLen == 4

AiTexts == {t \in SeqsUpTo({"a", "A", "b", " "}, MaxAiLen) : tokenize_text_only(t).words > 0}

\* extract_batch_word_positions (lines 319-326), from token i on
RECURSIVE ExtractPositionsFrom(_, _, _)
ExtractPositionsFrom(toks, i, end_idx) ==
    IF i > end_idx \/ i >= Len(toks) THEN <<>>
    ELSE (IF Tok(toks, i).type = "word" THEN <<Tok(toks, i).wordPos>> ELSE <<>>)
             \o ExtractPositionsFrom(toks, i + 1, end_idx)

extract_batch_word_positions(toks, start_idx, end_idx) ==
    ExtractPositionsFrom(toks, start_idx, end_idx)

\* Lines 432-437: the first position of the batch whose entry has the word
\* of the item, compared in lower case; 0 stands for None
MatchedPos(db, word_positions, word_text) ==
    LET hits == {i \in 1..Len(word_positions) :
                    /\ word_positions[i] \in DOMAIN db
                    /\ Lower(db[word_positions[i]].word) = word_text}
    IN  IF hits = {} THEN 0
        ELSE word_positions[CHOOSE i \in hits : \A j \in hits : i <= j]

\* Lines 439-450: the fields the item gives, or their defaults
ItemUpdate(word_info) ==
    [pos                   |-> GetOr(word_info, "pos", "TBD"),
     lemma                 |-> GetOr(word_info, "lemma", "TBD"),
     best_translation      |-> GetOr(word_info, "best_translation", "TBD"),
     possible_translations |-> GetOr(word_info, "possible_translations", <<>>),
     details               |-> GetOr(word_info, "details", EmptyDict),
     freq                  |-> GetOr(word_info, "freq", "TBD"),
     lemma_translations    |-> GetOr(word_info, "lemma_translations", <<>>),
     most_frequent_lemma   |-> GetOr(word_info, "most_frequent_lemma", "TBD")]

\* Lines 426-450: the loop over the items, from item k on
RECURSIVE UpdateFromItems(_, _, _, _)
UpdateFromItems(db, words_data, k, word_positions) ==
    IF k > Len(words_data) THEN db
    ELSE LET word_info   == words_data[k]
             word_text   == Lower(GetOr(word_info, "word", <<>>))
             matched_pos == MatchedPos(db, word_positions, word_text)
         IN  UpdateFromItems(
                 IF matched_pos # 0
                 THEN [db EXCEPT ![matched_pos] = DictUpdate(@, ItemUpdate(word_info))]
                 ELSE db,
                 words_data, k + 1, word_positions)

\* update_database_from_response (lines 417-449) for a response with the
\* key 'words'
update_database_from_response(db, response_data, word_positions) ==
    UpdateFromItems(db, response_data.words, 1, word_positions)

\* The responses of the service: one item per word of the batch, in order,
\* with the word's own text and the three core fields, alone or with the
\* other fields; or a JSON object without the key 'words'
AiItem(db, p, full) ==
    IF full
    THEN [word |-> db[p].word, pos |-> "NOUN", lemma |-> "l", best_translation |-> "t1",
          possible_translations |-> <<"t1", "s">>, details |-> [case |-> "nom"],
          freq |-> "1", lemma_translations |-> <<"t1">>, most_frequent_lemma |-> "l"]
    ELSE [word |-> db[p].word, pos |-> "NOUN", lemma |-> "l", best_translation |-> "t1"]

AiResponses(db, word_positions) ==
    { [kind |-> "in_order", words |-> [k \in 1..Len(word_positions) |-> AiItem(db, word_positions[k], TRUE)]],
      [kind |-> "in_order", words |-> [k \in 1..Len(word_positions) |-> AiItem(db, word_positions[k], FALSE)]],
      [kind |-> "no_words", words |-> <<>>] }

InitAi ==
    /\ text \in AiTexts
    /\ target_word_count = 30
    /\ backward_range = DEFAULT_BACKWARD_SEARCH_RANGE
    /\ forward_range = DEFAULT_FORWARD_SEARCH_RANGE
    /\ all_tokens = <<>>
    /\ global_word_counter = 0
    /\ split_points = <<>>
    /\ boundaries = <<>>
    /\ spc = "ai_input"
    /\ doc = NoDoc
    /\ IdleRest

\* Lines 530-533: the databases are reset and the text is tokenized
AiTokenize ==
    /\ spc = "ai_input"
    /\ LET r == tokenize_text_only(text)
       IN  /\ all_tokens' = r.tokens
           /\ global_word_counter' = r.words
           /\ global_database' = EnsureWordEntries(r.tokens, r.words, <<>>)
    /\ spc' = "ai_tokenized"
    /\ UNCHANGED <<text, target_word_count, backward_range, forward_range, split_points,
                   boundaries, global_segment_database, global_idiom_database,
                   global_known_words, taskVars, runVars>>

\* Lines 536-561 and process_batch_with_llm (lines 343-415) for the only
\* batch: the service answers the first call with response_data.  A
\* response without 'words' makes update_database_from_response raise at
\* every attempt, and the batch fails.
AiProcessBatch(response_data) ==
    /\ spc = "ai_tokenized"
    /\ split_points' = <<Len(all_tokens) - 1>>
    /\ LET word_positions == extract_batch_word_positions(all_tokens, 0, Len(all_tokens) - 1)
       IN  /\ response_data \in AiResponses(global_database, word_positions)
           /\ ~ is_batch_already_processed(global_database, Range(word_positions))
           /\ global_database' =
                 IF response_data.kind = "no_words" THEN global_database
                 ELSE update_database_from_response(global_database, response_data,
                                                    word_positions)
           /\ tlocal' = [word_positions |-> word_positions,
                         response_data  |-> response_data,
                         success        |-> response_data.kind # "no_words"]
    /\ spc' = "ai_processed"
    /\ UNCHANGED <<text, all_tokens, global_word_counter, target_word_count, backward_range,
                   forward_range, boundaries, global_segment_database,
                   global_idiom_database, global_known_words, tpc, validation_attempt,
                   attempt, validated_data, tstatus, sem, lock_holders, faults, called,
                   runVars>>

\* The responses to the request about the only batch
OnlyBatchResponses ==
    AiResponses(global_database,
                extract_batch_word_positions(all_tokens, 0, Len(all_tokens) - 1))

NextAi ==
    \/ AiTokenize
    \/ \E response_data \in OnlyBatchResponses : AiProcessBatch(response_data)

SpecAi == InitAi /\ [][NextAi]_vars

(***************************************************************************)
(* Properties of update_database_from_response, checked under SpecAi       *)
(***************************************************************************)

\* C40: when the response lists one item per word of the batch, in order,
\* each with the word's own text and non-TBD pos, lemma and
\* best_translation, every word position of the batch is annotated and
\* is_batch_already_processed reports the batch as processed, also when a
\* word occurs more than once in the batch.
C40_BatchAnnotated ==
    (spc = "ai_processed" /\ tlocal.response_data.kind = "in_order") =>
        is_batch_already_processed(global_database, Range(tlocal.word_positions))

=============================================================================
